---- MODULE Spec2Model ----
\* The OAuth2 credential lifecycle of the API client wrappers: the Credentials
\* value object, the expiry-gated call path of the ApiClient trait
\* (get_check_client / call / call_json), refresh_credentials and
\* set_credentials of the provider wrappers, and the notification of observers.
\*
\* Spec is the call path of one wrapper with one caller. The other
\* specifications look at one part each: ExpirySpec at is_expired() over
\* every Credentials value, AuthorizeSpec at authorize, TaskSpec at several
\* callers sharing a wrapper, ObserverSpec at the Receivers of the watch
\* channel, SurfaceSpec at the methods that only read the wrapper, FlowSpec
\* at the authorization-code flow (authorize, token_exchange),
\* TokenErrorSpec at the errors of HubSpot's token requests, PersistSpec at
\* the persisted form of Credentials, SheetsSpec at the reads of the Sheets
\* adapter, ReauthorizeSpec at repeated authorize calls, AccountSpec at
\* account_id of Microsoft's and Reddit's wrapper, PaginateSpec at
\* GithubClient::paginate, ListSpec at the listings of Reddit's wrapper, and
\* CallLiveSpec at call where every HTTP round trip completes.
EXTENDS Integers, Sequences, FiniteSets, TLC

\* ---------------------------------------------------------------- bounds
\* The clock runs over 0..MaxTime (Utc::now(), in whole time units).
MaxTime == 2
\* Lifetimes (expires_in) of the call path range over 1..MaxLife, all of them
\* durations chrono holds.
MaxLife == 1

\* AuthorizeOptions.extra_params holds at most MaxExtra pairs.
MaxExtra == 2
\* The callers (tasks) that share one wrapper are 1..MaxTasks.
MaxTasks == 2
\* Observers hold at most MaxReceivers Receivers at a time.
MaxReceivers == 2
\* Successful refreshes are counted up to MaxPublished.
MaxPublished == 2
\* The values the random generator hands out to repeated authorize calls.
MaxDraws == 4
\* Page numbers (u32) range over 0..MaxPage, MaxPage standing for u32::MAX.
MaxPage == 7
\* The limit arguments (usize) of list_saved / list_upvoted are 0..MaxLimit.
MaxLimit == 102

\* ---------------------------------------------------------------- values
\* Option<T> is a set with at most one element.
None == {}
Some(x) == {x}
Unwrap(o) == CHOOSE x \in o : TRUE

Providers == {"hubspot", "github", "microsoft", "reddit", "google"}
\* The wrappers of the watch-channel revision; reddit and google hold the
\* boxed on_refresh callback instead.
WatchProviders == {"hubspot", "github", "microsoft"}

\* Access token secrets: "" is the token of Credentials::default(), "bad\n"
\* holds a byte HeaderValue::from_str rejects.
AccessTokens == {"", "at1", "bad\n"}
RefreshTokens == {"r1"}
Times == 0..MaxTime
Lifetimes == 1..MaxLife
Statuses == {200, 401, 404, 500}
Tasks == 1..MaxTasks

Credentials(t) ==
  [requested_at : 0..t,
   access_token : AccessTokens,
   refresh_token : {None} \cup {Some(r) : r \in RefreshTokens},
   expires_in : {None} \cup {Some(d) : d \in Lifetimes}]

\* Credentials::default(), built at time t.
DefaultCredentials(t) ==
  [requested_at |-> t, access_token |-> "", refresh_token |-> None,
   expires_in |-> None]

\* BasicTokenResponse, as far as the wrappers read it.
TokenResponses ==
  [access_token : AccessTokens \ {""},
   refresh_token : {None} \cup {Some(r) : r \in RefreshTokens},
   expires_in : {None} \cup {Some(d) : d \in Lifetimes}]

\* What the token endpoint round trip ends with: a token response (resp is
\* Some of it), or one of the RequestTokenError variants (Parse carries the
\* raw body, which is or is not valid UTF-8).
TokenOutcomes ==
  {[kind |-> "Ok", resp |-> Some(r), utf8 |-> TRUE] : r \in TokenResponses}
  \cup {[kind |-> k, resp |-> None, utf8 |-> u] :
          k \in {"ServerResponse", "Request"}, u \in {TRUE}}
  \cup {[kind |-> "Parse", resp |-> None, utf8 |-> u] : u \in BOOLEAN}

\* What the API round trip ends with: a response with a status and a body
\* that is or is not JSON, or a transport failure.
ApiOutcomes ==
  {[kind |-> "Response", status |-> s, json |-> j] : s \in Statuses, j \in BOOLEAN}
  \cup {[kind |-> "Transport", status |-> 0, json |-> FALSE]}

\* Results of an invocation.
NoResult == [kind |-> "None", msg |-> <<>>, client |-> None, status |-> None]
OkUnit == [kind |-> "Ok", msg |-> <<>>, client |-> None, status |-> None]
OkClient(h) == [kind |-> "Ok", msg |-> <<>>, client |-> Some(h), status |-> None]
OkResponse(s) == [kind |-> "Ok", msg |-> <<>>, client |-> None, status |-> Some(s)]
AuthError(m) == [kind |-> "AuthError", msg |-> m, client |-> None, status |-> None]
RequestError(m, s) == [kind |-> "RequestError", msg |-> m, client |-> None, status |-> s]
AnyhowError(m) == [kind |-> "Error", msg |-> m, client |-> None, status |-> None]
BadRequest(m) == [kind |-> "BadRequest", msg |-> m, client |-> None, status |-> None]
SerdeError(m) == [kind |-> "SerdeError", msg |-> m, client |-> None, status |-> None]

\* ---------------------------------------------------------------- state
VARIABLES
  provider,       \* which wrapper this is
  now,            \* Utc::now()
  credentials,    \* self.credentials
  http,           \* the bearer token self.http sends as Authorization
  watch,          \* Option: the value the watch channel holds; in the callback
                  \* revision, the value the on_refresh callback last received
  pc,             \* "idle", "await_token", "await_api", "done"
  op,             \* the invocation in progress or last completed
  result,         \* what the last completed invocation returned
  checkedExpired, \* what is_expired() answered in this invocation's gate
  submitted,      \* Option: the refresh token this invocation last submitted
  refreshCalls,   \* token-endpoint requests of this invocation
  refreshed,      \* Option: the token response this invocation's refresh got
  refreshErr,     \* Option: the error this invocation's refresh returned
  sends,          \* notifications of observers by this invocation
  apiRequests,    \* API requests dispatched by this invocation
  sentBearer,     \* Option: the bearer token of the dispatched API request
  received,       \* Option: what the API round trip of this invocation ended with
  expiry,         \* Option: what a direct call of is_expired() ended with
  scopes,         \* the scope list given to authorize
  options,        \* the AuthorizeOptions given to authorize
  request,        \* Option: the AuthorizationRequest authorize returned
  rng,            \* how many values the random generator has handed out
  issued,         \* the csrf tokens and verifiers of the requests that
                  \* earlier authorize calls returned
  tpc,            \* of each caller sharing the wrapper: where its call stands
  tsub,           \* of each caller: Option, the refresh token its exchange
                  \* in flight submitted
  receivers,      \* the Receivers observers hold (clones of on_refresh_rx)
  observed,       \* Option: the Credentials an observer last read
  published,      \* successful refreshes so far (counted up to MaxPublished)
  latest,         \* Option: the Credentials of new, then of the most recent
                  \* successful refresh
  previous,       \* Option: what `latest` was before that refresh
  exchange,       \* Option: the authorization-code request token_exchange
                  \* has in flight: its arguments and the body sent
  returned,       \* what the last id / credentials / http_client /
                  \* token_exchange call returned to its caller
  answer,         \* Option: what the token endpoint answered the request of
                  \* the last token_exchange or refresh_credentials, where
                  \* the answer is kept on record
  file,           \* Option: the JSON text save_to_file wrote
  loaded,         \* Option: the Credentials deserialized from the file
  sheet,          \* of the last read of the Sheets adapter: what a1_notation
                  \* made of the cell range, and the request it has come to
  username,       \* Option: self.username of Microsoft's and Reddit's
                  \* wrapper, the account name account_id keeps
  pager,          \* Option: of the last paginate of GitHub's wrapper, the
                  \* page asked for, the page of the query, the link header
                  \* of the response and the next_page returned
  listing         \* Option: of the last list_saved / list_upvoted of Reddit's
                  \* wrapper, the arguments, the request it has come to and
                  \* the query of the listing request

\* The fields of the wrapper.
wrapperVars == <<provider, now, credentials, http, watch>>

\* The position and the record of the invocation in progress.
callVars == <<pc, op, result, checkedExpired, submitted, refreshCalls,
              refreshed, refreshErr, sends, apiRequests, sentBearer, received>>

\* What the call path of the wrapper leaves alone.
authorizeVars == <<scopes, options, request, rng, issued>>
taskVars == <<tpc, tsub>>
observerVars == <<receivers, observed, published, latest, previous>>
surfaceVars == <<exchange, returned, answer>>
persistVars == <<file, loaded>>
adapterVars == <<sheet, username, pager, listing>>
auxVars == <<expiry, authorizeVars, taskVars, observerVars, surfaceVars,
             persistVars, adapterVars>>

vars == <<provider, now, credentials, http, watch, pc, op, result,
          checkedExpired, submitted, refreshCalls, refreshed,
          refreshErr, sends, apiRequests, sentBearer, received, expiry,
          scopes, options, request, rng, issued, tpc, tsub, receivers,
          observed, published, latest, previous, exchange, returned, answer,
          file, loaded, sheet, username, pager, listing>>

\* ---------------------------------------------------------------- Credentials
\* is_expired with the comparison made inclusive (>= for >).
is_expired_inclusive(c, t) ==
  IF c.expires_in # None
    THEN (t - c.requested_at) >= Unwrap(c.expires_in)
    ELSE FALSE

\* is_expired that takes Credentials without a lifetime for expired.
is_expired_without_lifetime(c, t) ==
  IF c.expires_in # None
    THEN (t - c.requested_at) > Unwrap(c.expires_in)
    ELSE TRUE

\* Credentials::is_expired, at time t.
is_expired(c, t) ==
  IF c.expires_in # None
    THEN (t - c.requested_at) > Unwrap(c.expires_in)
    ELSE FALSE

\* refresh_token that keeps the lifetime held when the response has none.
refresh_token_keeps_lifetime(c, resp, t) ==
  [requested_at |-> t,
   access_token |-> resp.access_token,
   refresh_token |-> resp.refresh_token,
   expires_in |-> IF resp.expires_in = None THEN c.expires_in
                  ELSE resp.expires_in]

\* refresh_token without the reset of requested_at.
refresh_token_keeps_requested_at(c, resp, t) ==
  [requested_at |-> c.requested_at,
   access_token |-> resp.access_token,
   refresh_token |-> resp.refresh_token,
   expires_in |-> resp.expires_in]

\* Credentials::refresh_token: the token response applied at time t.
refresh_token(c, resp, t) ==
  [requested_at |-> t,
   access_token |-> resp.access_token,
   refresh_token |-> resp.refresh_token,
   expires_in |-> resp.expires_in]

\* HeaderValue::from_str(&format!("Bearer {token}")) accepts the token.
ValidHeaderValue(token) == token # "bad\n"

\* auth_http_client: Some(client), identified by its bearer token, or None
\* when the header value is rejected.
auth_http_client(token) ==
  IF ValidHeaderValue(token) THEN Some(token) ELSE None

\* ---------------------------------------------------------------- refresh
\* Display of oauth2's RequestTokenError, which `?` and to_string() carry
\* into the anyhow error.
RequestTokenErrorText(out) ==
  CASE out.kind = "ServerResponse" -> "Server returned error response"
    [] out.kind = "Request" -> "Request failed"
    [] out.kind = "Parse" -> "Failed to parse server response"
    [] OTHER -> ""

\* HubSpot's error arm without the unwrapping of the Parse error.
RefreshErrorText_display(p, out) == RequestTokenErrorText(out)

\* The message of the error refresh_credentials returns when the exchange
\* fails. HubSpot unwraps a Parse error to the raw body when that is UTF-8
\* and to the parser's message otherwise.
RefreshErrorText(p, out) ==
  IF p = "hubspot" /\ out.kind = "Parse"
    THEN (IF out.utf8 THEN "<raw response body>" ELSE "<parser error>")
    ELSE RequestTokenErrorText(out)

\* refresh_credentials without the `if let Some(refresh_token)` guard.
SendsExchange_always(c) == TRUE

\* refresh_credentials up to its first await: TRUE when the held Credentials
\* carry a refresh token, so that an exchange is sent; FALSE is the no-op.
SendsExchange(c) == c.refresh_token # None

\* tokio's watch::Sender::send with rx Receivers alive: Ok when there is one
\* to receive, Err (the channel is closed) when there is none.
watch_send(rx) == rx > 0

\* The Receivers alive when the observers have let go of on_refresh_rx too.
LiveReceivers_observers_only(n) == n

\* The Receivers of the channel that are alive when observers hold n: theirs,
\* and on_refresh_rx, which the wrapper keeps as long as it lives.
LiveReceivers(n) == n + 1

\* refresh_credentials that forgets to rebuild self.http.
CompleteRefresh_stale_client(p, c, h, w, out, t, rx) ==
  IF out.kind # "Ok"
    THEN [credentials |-> c, http |-> h, watch |-> w, sends |-> 0,
          err |-> Some(RefreshErrorText(p, out))]
    ELSE LET c2 == refresh_token(c, Unwrap(out.resp), t)
             client == auth_http_client(Unwrap(out.resp).access_token)
         IN IF client = None
              THEN [credentials |-> c2, http |-> h, watch |-> w, sends |-> 0,
                    err |-> Some("failed to parse header value")]
              ELSE IF p \in WatchProviders /\ ~watch_send(rx)
                THEN [credentials |-> c2, http |-> h, watch |-> w,
                      sends |-> 0, err |-> Some("channel closed")]
              ELSE [credentials |-> c2, http |-> h,
                    watch |-> Some(c2), sends |-> 1, err |-> None]

\* refresh_credentials that notifies before it rebuilds self.http.
CompleteRefresh_notifies_first(p, c, h, w, out, t, rx) ==
  IF out.kind # "Ok"
    THEN [credentials |-> c, http |-> h, watch |-> w, sends |-> 0,
          err |-> Some(RefreshErrorText(p, out))]
    ELSE LET c2 == refresh_token(c, Unwrap(out.resp), t)
             client == auth_http_client(Unwrap(out.resp).access_token)
         IN IF p \in WatchProviders /\ ~watch_send(rx)
              THEN [credentials |-> c2, http |-> h, watch |-> w, sends |-> 0,
                    err |-> Some("channel closed")]
              ELSE IF client = None
                THEN [credentials |-> c2, http |-> h, watch |-> Some(c2),
                      sends |-> 1, err |-> Some("failed to parse header value")]
              ELSE [credentials |-> c2, http |-> Unwrap(client),
                    watch |-> Some(c2), sends |-> 1, err |-> None]

\* refresh_credentials that publishes the Credentials it held before.
CompleteRefresh_publishes_old(p, c, h, w, out, t, rx) ==
  IF out.kind # "Ok"
    THEN [credentials |-> c, http |-> h, watch |-> w, sends |-> 0,
          err |-> Some(RefreshErrorText(p, out))]
    ELSE LET c2 == refresh_token(c, Unwrap(out.resp), t)
             client == auth_http_client(Unwrap(out.resp).access_token)
         IN IF client = None
              THEN [credentials |-> c2, http |-> h, watch |-> w, sends |-> 0,
                    err |-> Some("failed to parse header value")]
              ELSE IF p \in WatchProviders /\ ~watch_send(rx)
                THEN [credentials |-> c2, http |-> Unwrap(client), watch |-> w,
                      sends |-> 0, err |-> Some("channel closed")]
              ELSE [credentials |-> c2, http |-> Unwrap(client),
                    watch |-> Some(c), sends |-> 1, err |-> None]

\* refresh_credentials from the point where the token endpoint has answered
\* `out`, at time t, on a wrapper holding <<c, h, w>>: the three fields
\* afterwards, the number of notifications, and the error (None on success).
\* The statements run in the source's order: self.credentials.refresh_token,
\* then auth_http_client(..)?, then the send(..)? with rx Receivers alive / the
\* callback.
CompleteRefresh(p, c, h, w, out, t, rx) ==
  IF out.kind # "Ok"
    THEN [credentials |-> c, http |-> h, watch |-> w, sends |-> 0,
          err |-> Some(RefreshErrorText(p, out))]
    ELSE LET c2 == refresh_token(c, Unwrap(out.resp), t)
             client == auth_http_client(Unwrap(out.resp).access_token)
         IN IF client = None
              THEN [credentials |-> c2, http |-> h, watch |-> w, sends |-> 0,
                    err |-> Some("failed to parse header value")]
              ELSE IF p \in WatchProviders /\ ~watch_send(rx)
                THEN [credentials |-> c2, http |-> Unwrap(client), watch |-> w,
                      sends |-> 0, err |-> Some("channel closed")]
              ELSE [credentials |-> c2, http |-> Unwrap(client),
                    watch |-> Some(c2), sends |-> 1, err |-> None]

\* ---------------------------------------------------------------- call path
\* get_check_client before its await: "refresh" when the Credentials are
\* expired, "client" (return self.http_client()) otherwise.
GateCheck(c, t) == IF is_expired(c, t) THEN "refresh" ELSE "client"

\* get_check_client that refreshes again when the refresh failed.
GateAfterRefresh_retry(err) == IF err # None THEN "refresh" ELSE "client"

\* get_check_client that drops the refresh error and returns the client.
GateAfterRefresh_ignore(err) == "client"

\* get_check_client after refresh_credentials has returned `err`: the
\* AuthError, or the client.
GateAfterRefresh(err) == IF err # None THEN "error" ELSE "client"

\* The error get_check_client makes of a refresh error.
GateError(msg) == AuthError(<<"Unable to refresh credentials: ", msg>>)

\* call with error_for_status() applied to the response.
call_result_checks_status(out) ==
  IF out.kind = "Response"
    THEN (IF out.status >= 400 /\ out.status <= 599
            THEN RequestError(<<"status">>, Some(out.status))
            ELSE OkResponse(out.status))
    ELSE RequestError(<<"transport">>, None)

\* ApiClient::call from req.send().await on: the raw response whatever its
\* status, or the transport error.
call_result(out) ==
  IF out.kind = "Response"
    THEN OkResponse(out.status)
    ELSE RequestError(<<"transport">>, None)

\* Response::error_for_status: Err for a status in 400..599.
IsErrorStatus(s) == s >= 400 /\ s <= 599

\* call_json that reports every 4xx status as AuthError.
call_json_result_any4xx(out) ==
  IF out.kind # "Response"
    THEN RequestError(<<"transport">>, None)
    ELSE IF ~IsErrorStatus(out.status)
      THEN (IF out.json
              THEN OkResponse(out.status)
              ELSE RequestError(<<"decode">>, None))
      ELSE IF out.status < 500
        THEN AuthError(<<"Unauthorized">>)
        ELSE RequestError(<<"status">>, Some(out.status))

\* ApiClient::call_json from the response on.
call_json_result(out) ==
  IF out.kind # "Response"
    THEN RequestError(<<"transport">>, None)
    ELSE IF ~IsErrorStatus(out.status)
      THEN (IF out.json
              THEN OkResponse(out.status)
              ELSE RequestError(<<"decode">>, None))
      ELSE IF out.status = 401
        THEN AuthError(<<"Unauthorized">>)
        ELSE RequestError(<<"status">>, Some(out.status))

Gated == {"get_check_client", "call", "call_json"}

\* The reads of the Sheets adapter, which go through call_json.
SheetOps == {"read_range", "read_rows_as_map"}

\* The listings of Reddit's wrapper, which go through call_json too.
ListOps == {"list_saved", "list_upvoted"}

\* The invocations that run get_check_client, and those of them that
\* dispatch an API request with the client it returns.
ThroughGate == Gated \cup SheetOps \cup {"account_id", "paginate"} \cup ListOps
Dispatching ==
  {"call", "call_json"} \cup SheetOps \cup {"account_id", "paginate"}
    \cup ListOps

\* A refresh request that leaves the client credentials to the
\* Authorization header on every wrapper.
refresh_request_basic_auth(p, t) ==
  <<[key |-> "grant_type", value |-> <<"refresh_token">>],
    [key |-> "refresh_token", value |-> <<t>>]>>

\* The body of the refresh request refresh_credentials sends for refresh
\* token t: exchange_refresh_token(t), and HubSpot's client_id and
\* client_secret as extra parameters.
refresh_request(p, t) ==
  <<[key |-> "grant_type", value |-> <<"refresh_token">>],
    [key |-> "refresh_token", value |-> <<t>>]>>
  \o (IF p = "hubspot"
        THEN <<[key |-> "client_id", value |-> <<"<client_id>">>],
               [key |-> "client_secret", value |-> <<"<client_secret>">>]>>
        ELSE <<>>)

\* The same for an Option of a refresh token.
refresh_requests(p, token) == {refresh_request(p, t) : t \in token}

\* Option: the body of the refresh request this invocation last sent to the
\* token endpoint.
refreshRequest == refresh_requests(provider, submitted)

\* One stretch of an invocation `o` between two awaits, after k exchanges
\* and n API requests, on Credentials c and client h:
\*   "exchange": the refresh token is submitted and the reply awaited;
\*   "error":    the invocation returns the error e;
\*   "client":   refresh_credentials and get_check_client return; call and
\*               call_json dispatch the request with h and await the response.
Continue(o, what, c, h, k, n, e) ==
  CASE what = "exchange" ->
         /\ pc' = "await_token"
         /\ submitted' = c.refresh_token
         /\ refreshCalls' = k + 1
         /\ result' = NoResult
         /\ apiRequests' = n
         /\ sentBearer' = None
    [] what = "error" ->
         /\ pc' = "done"
         /\ submitted' = submitted
         /\ refreshCalls' = k
         /\ result' = e
         /\ apiRequests' = n
         /\ sentBearer' = None
    [] OTHER ->
         /\ submitted' = (IF k = 0 THEN None ELSE submitted)
         /\ refreshCalls' = k
         /\ IF o \in Dispatching
              THEN /\ pc' = "await_api"
                   /\ result' = NoResult
                   /\ apiRequests' = n + 1
                   /\ sentBearer' = Some(h)
              ELSE /\ pc' = "done"
                   /\ result' = (IF o = "get_check_client"
                                   THEN OkClient(h) ELSE OkUnit)
                   /\ apiRequests' = n
                   /\ sentBearer' = None

Ready == pc \in {"idle", "done"}

\* An invocation `o` begins, with a fresh record, and stands at `where`.
Invoked(o, where) ==
  /\ op' = o
  /\ pc' = where
  /\ result' = NoResult
  /\ checkedExpired' = FALSE
  /\ submitted' = None
  /\ refreshCalls' = 0
  /\ refreshed' = None
  /\ refreshErr' = None
  /\ sends' = 0
  /\ apiRequests' = 0
  /\ sentBearer' = None
  /\ received' = None

\* An invocation `o` that does not await runs and returns.
Returns(o) == Invoked(o, "done")

\* get_check_client, and call / call_json through it, up to the first await:
\* the expiry check, then refresh_credentials when expired.
Gate(o) ==
  /\ Ready
  /\ op' = o
  /\ checkedExpired' = is_expired(credentials, now)
  /\ refreshed' = None
  /\ refreshErr' = None
  /\ sends' = 0
  /\ received' = None
  /\ LET what == IF GateCheck(credentials, now) = "refresh"
                      /\ SendsExchange(credentials)
                   THEN "exchange" ELSE "client"
     IN Continue(o, what, credentials, http, 0, 0, NoResult)
  /\ UNCHANGED <<provider, now, credentials, http, watch>>
  /\ UNCHANGED auxVars

GetCheckClient == Gate("get_check_client")

Call == Gate("call")

CallJson == Gate("call_json")

\* refresh_credentials called directly, up to its first await.
RefreshCredentials ==
  /\ Ready
  /\ op' = "refresh_credentials"
  /\ checkedExpired' = FALSE
  /\ refreshed' = None
  /\ refreshErr' = None
  /\ sends' = 0
  /\ received' = None
  /\ LET what == IF SendsExchange(credentials) THEN "exchange" ELSE "client"
     IN Continue("refresh_credentials", what, credentials, http, 0, 0, NoResult)
  /\ UNCHANGED <<provider, now, credentials, http, watch>>
  /\ UNCHANGED auxVars

\* The token endpoint answers the exchange in flight with `out`;
\* refresh_credentials runs to its end and the invocation goes on to its next
\* await or returns.
TokenReplyOn(out) ==
  /\ pc = "await_token"
  /\ LET r == CompleteRefresh(provider, credentials, http, watch, out, now,
                             LiveReceivers(receivers))
         next == IF op \in ThroughGate
                   THEN GateAfterRefresh(r.err)
                   ELSE (IF r.err # None THEN "error" ELSE "client")
         what == IF next = "refresh"
                   THEN (IF SendsExchange(r.credentials)
                           THEN "exchange" ELSE "client")
                   ELSE next
         e == IF r.err = None THEN NoResult
              ELSE IF op \in ThroughGate THEN GateError(Unwrap(r.err))
              ELSE AnyhowError(<<Unwrap(r.err)>>)
     IN /\ credentials' = r.credentials
        /\ http' = r.http
        /\ watch' = r.watch
        /\ sends' = sends + r.sends
        /\ refreshed' = out.resp
        /\ refreshErr' = r.err
        /\ Continue(op, what, r.credentials, r.http, refreshCalls,
                    apiRequests, e)
  /\ UNCHANGED <<provider, now, op, checkedExpired, received>>

\* The token endpoint answers the exchange in flight.
TokenReplyStep == \E out \in TokenOutcomes : TokenReplyOn(out)

\* The same on a wrapper nobody observes or shares.
TokenReply == TokenReplyStep /\ UNCHANGED auxVars

\* call / call_json that send the request once more after a 401.
ApiReply_retry401 ==
  /\ pc = "await_api"
  /\ \E out \in ApiOutcomes :
       /\ received' = Some(out)
       /\ IF out.kind = "Response" /\ out.status = 401 /\ apiRequests < 2
            THEN /\ pc' = "await_api"
                 /\ result' = NoResult
                 /\ apiRequests' = apiRequests + 1
            ELSE /\ pc' = "done"
                 /\ result' = (IF op = "call" THEN call_result(out)
                               ELSE call_json_result(out))
                 /\ apiRequests' = apiRequests
  /\ UNCHANGED <<provider, now, credentials, http, watch, op, checkedExpired,
                 submitted, refreshCalls, refreshed,
                 refreshErr, sends, sentBearer>>
  /\ UNCHANGED auxVars

\* The API endpoint answers the dispatched request (or the transport fails).
ApiReply ==
  /\ pc = "await_api"
  /\ \E out \in ApiOutcomes :
       /\ received' = Some(out)
       /\ result' = (IF op = "call" THEN call_result(out)
                     ELSE call_json_result(out))
  /\ pc' = "done"
  /\ UNCHANGED <<provider, now, credentials, http, watch, op, checkedExpired,
                 submitted, refreshCalls, refreshed,
                 refreshErr, sends, apiRequests, sentBearer>>
  /\ UNCHANGED auxVars

\* set_credentials(c): the assignment, then auth_http_client(..)?.
SetCredentials ==
  /\ Ready
  /\ \E c \in Credentials(now) :
       LET client == auth_http_client(c.access_token)
       IN /\ credentials' = c
          /\ http' = (IF client = None THEN http ELSE Unwrap(client))
          /\ result' = (IF client = None
                          THEN AnyhowError(<<"failed to parse header value">>)
                          ELSE OkUnit)
  /\ op' = "set_credentials"
  /\ pc' = "done"
  /\ checkedExpired' = FALSE
  /\ submitted' = None
  /\ refreshCalls' = 0
  /\ refreshed' = None
  /\ refreshErr' = None
  /\ sends' = 0
  /\ apiRequests' = 0
  /\ sentBearer' = None
  /\ received' = None
  /\ UNCHANGED <<provider, now, watch>>
  /\ UNCHANGED auxVars

\* Time passes under a background timer that refreshes expired Credentials.
Tick_background_refresh ==
  /\ now < MaxTime
  /\ now' = now + 1
  /\ IF Ready /\ is_expired(credentials, now + 1) /\ SendsExchange(credentials)
       THEN /\ pc' = "await_token"
            /\ submitted' = credentials.refresh_token
            /\ refreshCalls' = 1
       ELSE UNCHANGED <<pc, submitted, refreshCalls>>
  /\ UNCHANGED <<provider, credentials, http, watch, op, result,
                 checkedExpired, refreshed, refreshErr, sends, apiRequests,
                 sentBearer, received>>
  /\ UNCHANGED auxVars

\* Time passes.
Tick ==
  /\ now < MaxTime
  /\ now' = now + 1
  /\ UNCHANGED <<provider, credentials, http, watch, pc, op, result,
                 checkedExpired, submitted, refreshCalls,
                 refreshed, refreshErr, sends, apiRequests, sentBearer,
                 received>>
  /\ UNCHANGED auxVars

\* No invocation in progress, none completed.
CallInit ==
  /\ pc = "idle"
  /\ op = "new"
  /\ result = NoResult
  /\ checkedExpired = FALSE
  /\ submitted = None
  /\ refreshCalls = 0
  /\ refreshed = None
  /\ refreshErr = None
  /\ sends = 0
  /\ apiRequests = 0
  /\ sentBearer = None
  /\ received = None

\* authorize has not been called.
AuthorizeIdle ==
  /\ scopes = <<>>
  /\ options = [pkce |-> FALSE, extra_params |-> <<>>]
  /\ request = None
  /\ rng = 0
  /\ issued = {}

\* No caller has issued a call.
TasksIdle ==
  /\ tpc = [t \in Tasks |-> "idle"]
  /\ tsub = [t \in Tasks |-> None]

\* No observer holds a Receiver, none has read.
ObserversIdle ==
  /\ receivers = 0
  /\ observed = None
  /\ published = 0
  /\ latest = None
  /\ previous = None

\* A value handed back to the caller: the wrapper's id, a clone of its
\* Credentials, a clone of its client, or the Result of token_exchange.
Returned(what, id, creds, client, token, err) ==
  [what |-> what, id |-> id, creds |-> creds, client |-> client,
   token |-> token, err |-> err]

NothingReturned == Returned("none", None, None, None, None, None)

\* account_id has not been called.
AccountIdle == username = None

\* paginate has not been called.
NoPage == None
PagerIdle == pager = NoPage

\* The record of the last paginate.
Pager == Unwrap(pager)

\* list_saved and list_upvoted have not been called.
NoListing == None
ListingIdle == listing = NoListing

\* The record of the last list_saved / list_upvoted.
Listing == Unwrap(listing)

\* None of them has been called.
SurfaceIdle ==
  /\ exchange = None
  /\ returned = NothingReturned
  /\ answer = None

\* The Sheets adapter has read nothing.
NoRead == [range |-> "none", stage |-> "none"]

SheetIdle == sheet = NoRead

\* Nothing has been saved or loaded.
PersistIdle ==
  /\ file = None
  /\ loaded = None

AuxInit ==
  /\ expiry = None
  /\ AuthorizeIdle
  /\ TasksIdle
  /\ ObserversIdle
  /\ SurfaceIdle
  /\ PersistIdle
  /\ SheetIdle
  /\ AccountIdle
  /\ PagerIdle
  /\ ListingIdle

\* Wrapper::new(.., creds): the http client is built from the credentials
\* (construction fails when it cannot be), and the watch channel is seeded
\* with them; the callback revision starts with the empty callback.
Init ==
  /\ provider \in Providers
  /\ now = 0
  /\ credentials \in Credentials(0)
  /\ auth_http_client(credentials.access_token) # None
  /\ http = Unwrap(auth_http_client(credentials.access_token))
  /\ watch = (IF provider \in WatchProviders THEN Some(credentials) ELSE None)
  /\ pc = "idle"
  /\ op = "new"
  /\ result = NoResult
  /\ checkedExpired = FALSE
  /\ submitted = None
  /\ refreshCalls = 0
  /\ refreshed = None
  /\ refreshErr = None
  /\ sends = 0
  /\ apiRequests = 0
  /\ sentBearer = None
  /\ received = None
  /\ AuxInit

Next ==
  \/ GetCheckClient
  \/ Call
  \/ CallJson
  \/ RefreshCredentials
  \/ TokenReply
  \/ ApiReply
  \/ SetCredentials
  \/ Tick

Spec == Init /\ [][Next]_vars

\* Invocations of call alone, one after another as time passes, where every
\* HTTP round trip in flight completes: the token endpoint and the API
\* answer, or the transport fails.
CallLiveNext ==
  \/ Call
  \/ TokenReply
  \/ ApiReply
  \/ Tick

CallLiveSpec ==
  Init /\ [][CallLiveNext]_vars /\ WF_vars(TokenReply) /\ WF_vars(ApiReply)

TypeOK ==
  /\ provider \in Providers
  /\ now \in Times
  /\ credentials \in Credentials(now)
  /\ http \in AccessTokens
  /\ pc \in {"idle", "await_token", "await_api", "done"}
  /\ refreshCalls \in 0..1
  /\ apiRequests \in 0..1

\* ---------------------------------------------------------------- is_expired
\* The longest duration chrono::Duration holds (i64::MAX milliseconds), in
\* the model's time units: past every clock difference and every lifetime of
\* the call path above.
ChronoMax == MaxTime + MaxLife

\* The values expires_in (a std::time::Duration) takes: those chrono holds,
\* and one beyond.
AllLifetimes == 0..(ChronoMax + 1)

\* Credentials as a caller or a credentials file can hold them; requested_at
\* may lie after the clock.
AnyCredentials ==
  [requested_at : Times,
   access_token : AccessTokens,
   refresh_token : {None} \cup {Some(r) : r \in RefreshTokens},
   expires_in : {None} \cup {Some(d) : d \in AllLifetimes}]

\* chrono::Duration::from_std: Err(OutOfRangeError) past chrono's range.
from_std(d) == IF d <= ChronoMax THEN Some(d) ELSE None

\* Credentials::is_expired() as a call, at time t: "true", "false", or
\* "panic" when .expect("Unable to convert duration") meets the Err.
is_expired_call(c, t) ==
  IF c.expires_in # None
    THEN LET dur == from_std(Unwrap(c.expires_in))
         IN IF dur = None THEN "panic"
            ELSE IF (t - c.requested_at) > Unwrap(dur) THEN "true"
            ELSE "false"
    ELSE "false"

\* is_expired() is called on the Credentials.
IsExpired ==
  /\ expiry = None
  /\ expiry' = Some(is_expired_call(credentials, now))
  /\ UNCHANGED <<wrapperVars, callVars, authorizeVars, taskVars,
                 observerVars, surfaceVars, persistVars, adapterVars>>

\* Time passes between two calls of is_expired().
ExpiryTick ==
  /\ now < MaxTime
  /\ now' = now + 1
  /\ expiry' = None
  /\ UNCHANGED <<provider, credentials, http, watch, callVars, authorizeVars,
                 taskVars, observerVars, surfaceVars, persistVars,
                 adapterVars>>

\* A Credentials value on its own, at any time of the clock.
ExpiryInit ==
  /\ provider = "github"
  /\ now \in Times
  /\ credentials \in AnyCredentials
  /\ http = credentials.access_token
  /\ watch = None
  /\ CallInit
  /\ expiry = None
  /\ AuthorizeIdle
  /\ TasksIdle
  /\ ObserversIdle
  /\ SurfaceIdle
  /\ PersistIdle
  /\ SheetIdle
  /\ AccountIdle
  /\ PagerIdle
  /\ ListingIdle

ExpiryNext == IsExpired \/ ExpiryTick

ExpirySpec == ExpiryInit /\ [][ExpiryNext]_vars

\* ---------------------------------------------------------------- authorize
\* One query pair of a URL; the value is a list of words (the scope
\* parameter joins its list with spaces).
Pair(k, v) == [key |-> k, value |-> <<v>>]

\* The extra parameters a caller asks for, and the scope lists.
ExtraParams == {Pair("duration", "permanent"), Pair("access_type", "offline")}
ScopeLists == {<<>>, <<"read">>, <<"read", "write">>}

AuthorizeOptions ==
  [pkce : BOOLEAN,
   extra_params : UNION {[1..n -> ExtraParams] : n \in 0..MaxExtra}]

\* oauth2's AuthorizationRequest::url(): the standard pairs, the PKCE pairs
\* when a challenge was set, the redirect URI, the scopes when there are any,
\* then the pairs of add_extra_param in the order they were added.
authorize_url(csrf, scopeList, challenge, extras) ==
  <<Pair("response_type", "code"), Pair("client_id", "<client_id>"),
    Pair("state", csrf)>>
  \o (IF challenge # None
        THEN <<Pair("code_challenge", Unwrap(challenge)),
               Pair("code_challenge_method", "S256")>>
        ELSE <<>>)
  \o <<Pair("redirect_uri", "<redirect_url>")>>
  \o (IF scopeList # <<>>
        THEN <<[key |-> "scope", value |-> scopeList]>>
        ELSE <<>>)
  \o extras

\* The wrappers whose authorize calls set_pkce_challenge (GitHub, Reddit,
\* Google); HubSpot's and Microsoft's never do.
SetsPkceChallenge(p) == p \in {"github", "reddit", "google"}

\* The pairs authorize passes to add_extra_param: HubSpot those of the
\* options, Reddit its own duration=permanent, the others none.
AddedExtraParams(p, opts) ==
  CASE p = "hubspot" -> opts.extra_params
    [] p = "reddit" -> <<Pair("duration", "permanent")>>
    [] OTHER -> <<>>

\* A generator that starts over with every second value.
new_random_reseeded(n) == "<random " \o ToString(n % 2) \o ">"

\* The n-th value of the thread's random generator (CsrfToken::new_random,
\* PkceCodeChallenge::new_random_sha256): 16 and 32 random bytes, taken here
\* to differ from every value drawn before.
new_random(n) == "<random " \o ToString(n) \o ">"

\* The S256 challenge of a verifier.
new_from_sha256(verifier) == "S256(" \o verifier \o ")"

\* The random values one authorize call of wrapper p draws: the verifier
\* where it uses PKCE, then the csrf token.
Draws(p) == IF SetsPkceChallenge(p) THEN 2 ELSE 1

\* authorize(scopes, options) of wrapper p, the generator having handed out
\* n values so far.
authorize(p, scopeList, opts, n) ==
  LET verifier == IF SetsPkceChallenge(p) THEN Some(new_random(n)) ELSE None
      challenge == {new_from_sha256(v) : v \in verifier}
      csrf == new_random(n + Draws(p) - 1)
  IN [url |-> authorize_url(csrf, scopeList, challenge,
                            AddedExtraParams(p, opts)),
      csrf_token |-> csrf,
      pkce_challenge |-> challenge,
      pkce_verifier |-> verifier]

\* The secrets of the request authorize last returned, if it has.
Secrets(req) == UNION {{r.csrf_token} \cup r.pkce_verifier : r \in req}

\* authorize is called; it takes &self and leaves the wrapper as it is.
AuthorizeCall ==
  /\ Ready
  /\ request' = Some(authorize(provider, scopes, options, rng))
  /\ rng' = rng + Draws(provider)
  /\ issued' = issued \cup Secrets(request)
  /\ Returns("authorize")
  /\ UNCHANGED <<wrapperVars, expiry, scopes, options, taskVars,
                 observerVars, surfaceVars, persistVars, adapterVars>>

\* The first authorize call on the wrapper.
Authorize == request = None /\ AuthorizeCall

\* authorize called again and again, while the generator has values left.
AuthorizeAgain == rng < MaxDraws /\ AuthorizeCall

\* A wrapper just built, and the arguments of the authorize call to come.
AuthorizeInit ==
  /\ provider \in Providers
  /\ now = 0
  /\ credentials = DefaultCredentials(0)
  /\ http = ""
  /\ watch = (IF provider \in WatchProviders THEN Some(credentials) ELSE None)
  /\ CallInit
  /\ expiry = None
  /\ scopes \in ScopeLists
  /\ options \in AuthorizeOptions
  /\ request = None
  /\ rng = 0
  /\ issued = {}
  /\ TasksIdle
  /\ ObserversIdle
  /\ SurfaceIdle
  /\ PersistIdle
  /\ SheetIdle
  /\ AccountIdle
  /\ PagerIdle
  /\ ListingIdle

AuthorizeNext == Authorize

AuthorizeSpec == AuthorizeInit /\ [][AuthorizeNext]_vars

\* The same wrapper asked for one authorization request after another.
ReauthorizeNext == AuthorizeAgain

ReauthorizeSpec == AuthorizeInit /\ [][ReauthorizeNext]_vars

\* ---------------------------------------------------------------- callers
\* get_check_client, call, call_json and refresh_credentials take &mut self:
\* a caller runs one of them only while it holds the wrapper exclusively
\* (the borrow itself, or the lock of the mutex that owns the wrapper), from
\* the call to the end of its future. The wrapper is shared without that.
ExclusiveBorrow_shared(tp, t) == TRUE

\* TRUE when caller t can take the exclusive borrow: no other caller's call
\* is under way.
ExclusiveBorrow(tp, t) ==
  \A u \in Tasks \ {t} : tp[u] \in {"idle", "waiting"}

\* Caller t issues call(); its future waits for the wrapper.
TaskIssue(t) ==
  /\ tpc[t] = "idle"
  /\ tpc' = [tpc EXCEPT ![t] = "waiting"]
  /\ UNCHANGED <<wrapperVars, callVars, expiry, authorizeVars, tsub,
                 observerVars, surfaceVars, persistVars, adapterVars>>

\* Caller t's call() runs up to its first await: the expiry check, then the
\* exchange of the refresh token or the dispatch of the request.
TaskCall(t) ==
  /\ tpc[t] = "waiting"
  /\ ExclusiveBorrow(tpc, t)
  /\ IF GateCheck(credentials, now) = "refresh" /\ SendsExchange(credentials)
       THEN /\ tpc' = [tpc EXCEPT ![t] = "await_token"]
            /\ tsub' = [tsub EXCEPT ![t] = credentials.refresh_token]
       ELSE /\ tpc' = [tpc EXCEPT ![t] = "await_api"]
            /\ tsub' = tsub
  /\ UNCHANGED <<wrapperVars, callVars, expiry, authorizeVars, observerVars,
                 surfaceVars, persistVars, adapterVars>>

\* The token endpoint answers caller t's exchange: refresh_credentials runs
\* to its end, and call() returns the error or dispatches the request.
TaskTokenReply(t) ==
  /\ tpc[t] = "await_token"
  /\ \E out \in TokenOutcomes :
       LET r == CompleteRefresh(provider, credentials, http, watch, out, now,
                               LiveReceivers(receivers))
       IN /\ credentials' = r.credentials
          /\ http' = r.http
          /\ watch' = r.watch
          /\ tpc' = [tpc EXCEPT ![t] = IF GateAfterRefresh(r.err) = "error"
                                         THEN "idle" ELSE "await_api"]
  /\ tsub' = [tsub EXCEPT ![t] = None]
  /\ UNCHANGED <<provider, now, callVars, expiry, authorizeVars, observerVars,
                 surfaceVars, persistVars, adapterVars>>

\* The API endpoint answers caller t's request; call() returns.
TaskApiReply(t) ==
  /\ tpc[t] = "await_api"
  /\ tpc' = [tpc EXCEPT ![t] = "idle"]
  /\ UNCHANGED <<wrapperVars, callVars, expiry, authorizeVars, tsub,
                 observerVars, surfaceVars, persistVars, adapterVars>>

\* Caller t drops its future at an await: the request in flight is
\* abandoned and the wrapper is released as it is.
TaskCancel(t) ==
  /\ tpc[t] \in {"waiting", "await_token", "await_api"}
  /\ tpc' = [tpc EXCEPT ![t] = "idle"]
  /\ tsub' = [tsub EXCEPT ![t] = None]
  /\ UNCHANGED <<wrapperVars, callVars, expiry, authorizeVars, observerVars,
                 surfaceVars, persistVars, adapterVars>>

\* Time passes.
TaskTick ==
  /\ now < MaxTime
  /\ now' = now + 1
  /\ UNCHANGED <<provider, credentials, http, watch, callVars, expiry,
                 authorizeVars, taskVars, observerVars, surfaceVars,
                 persistVars, adapterVars>>

\* One GitHub wrapper, as new builds it, shared by the callers.
TaskInit ==
  /\ provider = "github"
  /\ now = 0
  /\ credentials \in Credentials(0)
  /\ auth_http_client(credentials.access_token) # None
  /\ http = Unwrap(auth_http_client(credentials.access_token))
  /\ watch = Some(credentials)
  /\ CallInit
  /\ expiry = None
  /\ AuthorizeIdle
  /\ TasksIdle
  /\ ObserversIdle
  /\ SurfaceIdle
  /\ PersistIdle
  /\ SheetIdle
  /\ AccountIdle
  /\ PagerIdle
  /\ ListingIdle

TaskNext ==
  \/ \E t \in Tasks : TaskIssue(t)
  \/ \E t \in Tasks : TaskCall(t)
  \/ \E t \in Tasks : TaskTokenReply(t)
  \/ \E t \in Tasks : TaskApiReply(t)
  \/ \E t \in Tasks : TaskCancel(t)
  \/ TaskTick

TaskSpec == TaskInit /\ [][TaskNext]_vars

\* ---------------------------------------------------------------- observers
\* watch_on_refresh(): an observer is handed a clone of on_refresh_rx.
WatchOnRefresh ==
  /\ Ready
  /\ receivers < MaxReceivers
  /\ receivers' = receivers + 1
  /\ Returns("watch_on_refresh")
  /\ UNCHANGED <<wrapperVars, expiry, authorizeVars, taskVars, observed,
                 published, latest, previous, surfaceVars, persistVars,
                 adapterVars>>

\* An observer reads the channel through its Receiver (borrow().clone()):
\* the one value the channel holds.
Observe ==
  /\ receivers > 0
  /\ observed' = watch
  /\ UNCHANGED <<wrapperVars, callVars, expiry, authorizeVars, taskVars,
                 receivers, published, latest, previous, surfaceVars,
                 persistVars, adapterVars>>

\* An observer drops its Receiver.
ObserverDrop ==
  /\ receivers > 0
  /\ receivers' = receivers - 1
  /\ UNCHANGED <<wrapperVars, callVars, expiry, authorizeVars, taskVars,
                 observed, published, latest, previous, surfaceVars,
                 persistVars, adapterVars>>

\* The token endpoint answers the exchange of refresh_credentials on the
\* observed wrapper; a successful refresh is recorded as the latest.
ObservedTokenReply ==
  /\ TokenReplyStep
  /\ IF refreshErr' = None
       THEN /\ published' = (IF published < MaxPublished
                               THEN published + 1 ELSE published)
            /\ latest' = Some(credentials')
            /\ previous' = latest
       ELSE UNCHANGED <<published, latest, previous>>
  /\ UNCHANGED <<expiry, authorizeVars, taskVars, receivers, observed,
                 surfaceVars, persistVars, adapterVars>>

\* A wrapper of the watch-channel revision, as new builds it: the channel is
\* seeded with its Credentials and on_refresh_rx is the only Receiver.
ObserverInit ==
  /\ provider \in WatchProviders
  /\ now = 0
  /\ credentials \in Credentials(0)
  /\ auth_http_client(credentials.access_token) # None
  /\ http = Unwrap(auth_http_client(credentials.access_token))
  /\ watch = Some(credentials)
  /\ CallInit
  /\ expiry = None
  /\ AuthorizeIdle
  /\ TasksIdle
  /\ receivers = 0
  /\ observed = None
  /\ published = 0
  /\ latest = Some(credentials)
  /\ previous = None
  /\ SurfaceIdle
  /\ PersistIdle
  /\ SheetIdle
  /\ AccountIdle
  /\ PagerIdle
  /\ ListingIdle

ObserverNext ==
  \/ RefreshCredentials
  \/ ObservedTokenReply
  \/ WatchOnRefresh
  \/ Observe
  \/ ObserverDrop

ObserverSpec == ObserverInit /\ [][ObserverNext]_vars

\* ---------------------------------------------------------------- surface
\* id(): a constant of the wrapper (Microsoft's is the api_id given to new).
IdOf(p) ==
  CASE p = "hubspot" -> "hubspot.com"
    [] p = "github" -> "api.github.com"
    [] p = "microsoft" -> "<api_id>"
    [] p = "reddit" -> "oauth.reddit.com"
    [] OTHER -> "calendar.google.com"

Id ==
  /\ Ready
  /\ returned' = Returned("id", Some(IdOf(provider)), None, None, None, None)
  /\ Returns("id")
  /\ UNCHANGED <<wrapperVars, expiry, authorizeVars, taskVars, observerVars,
                 exchange, answer, persistVars, adapterVars>>

\* credentials(): self.credentials.clone().
GetCredentials ==
  /\ Ready
  /\ returned' = Returned("credentials", None, Some(credentials), None, None,
                          None)
  /\ Returns("credentials")
  /\ UNCHANGED <<wrapperVars, expiry, authorizeVars, taskVars, observerVars,
                 exchange, answer, persistVars, adapterVars>>

\* http_client(): self.http.clone().
GetHttpClient ==
  /\ Ready
  /\ returned' = Returned("http_client", None, None, Some(http), None, None)
  /\ Returns("http_client")
  /\ UNCHANGED <<wrapperVars, expiry, authorizeVars, taskVars, observerVars,
                 exchange, answer, persistVars, adapterVars>>

Codes == {"code1"}
Verifiers == {None, Some(new_random(0))}

\* token_exchange that hands HubSpot's request the verifier it is given.
token_request_with_verifier(p, code, verifier) ==
  <<Pair("grant_type", "authorization_code"), Pair("code", code)>>
  \o (IF verifier # None
        THEN <<Pair("code_verifier", Unwrap(verifier))>>
        ELSE <<>>)
  \o <<Pair("redirect_uri", "<redirect_url>")>>
  \o (IF p = "hubspot"
        THEN <<Pair("client_id", "<client_id>"),
               Pair("client_secret", "<client_secret>")>>
        ELSE <<>>)

\* token_exchange that sends the verifier its own authorize handed out,
\* whichever one it is given.
token_request_own_verifier(p, code, verifier) ==
  <<Pair("grant_type", "authorization_code"), Pair("code", code)>>
  \o (IF p # "hubspot" /\ verifier # None
        THEN <<Pair("code_verifier", new_random(0))>>
        ELSE <<>>)
  \o <<Pair("redirect_uri", "<redirect_url>")>>
  \o (IF p = "hubspot"
        THEN <<Pair("client_id", "<client_id>"),
               Pair("client_secret", "<client_secret>")>>
        ELSE <<>>)

\* The body of the authorization-code request token_exchange sends: the
\* code, the PKCE verifier when one is given (HubSpot's wrapper ignores it,
\* Google's always has one), and HubSpot's client_id / client_secret.
token_request(p, code, verifier) ==
  <<Pair("grant_type", "authorization_code"), Pair("code", code)>>
  \o (IF p # "hubspot" /\ verifier # None
        THEN <<Pair("code_verifier", Unwrap(verifier))>>
        ELSE <<>>)
  \o <<Pair("redirect_uri", "<redirect_url>")>>
  \o (IF p = "hubspot"
        THEN <<Pair("client_id", "<client_id>"),
               Pair("client_secret", "<client_secret>")>>
        ELSE <<>>)

\* The message of the error token_exchange returns: the Display of the
\* RequestTokenError, Microsoft's Debug of it behind a prefix, HubSpot's
\* unwrapping of a Parse error.
TokenExchangeErrorText(p, out) ==
  CASE p = "hubspot" -> RefreshErrorText(p, out)
    [] p = "microsoft" -> "Token Exchange Error <debug of the error>"
    [] OTHER -> RequestTokenErrorText(out)

\* The pkce_verifier arguments wrapper p's token_exchange takes: an
\* Option<String>, and a &str for Google's.
VerifierArgs(p) == IF p = "google" THEN Verifiers \ {None} ELSE Verifiers

\* The same with a verifier that no authorize call has handed out.
AnyVerifierArgs(p) == VerifierArgs(p) \cup {Some("<another verifier>")}

\* token_exchange(code, pkce_verifier), up to its await: the request is
\* built from the arguments and sent; the verifier is one of `verifiers`.
TokenExchangeGiven(verifiers) ==
  /\ Ready
  /\ \E code \in Codes, verifier \in verifiers :
       exchange' = Some([code |-> code, pkce_verifier |-> verifier,
                         body |-> token_request(provider, code, verifier)])
  /\ Invoked("token_exchange", "await_exchange")
  /\ UNCHANGED <<wrapperVars, expiry, authorizeVars, taskVars, observerVars,
                 returned, answer, persistVars, adapterVars>>

TokenExchange == TokenExchangeGiven(VerifierArgs(provider))

\* token_exchange called with any verifier, the caller's own included.
TokenExchangeAnyVerifier == TokenExchangeGiven(AnyVerifierArgs(provider))

\* What token_exchange returns when the token endpoint has answered `out`:
\* the token response, or the error as text in an anyhow::Error.
token_exchange_returned(p, out) ==
  IF out.kind = "Ok"
    THEN Returned("token_exchange", None, None, None, out.resp, None)
    ELSE Returned("token_exchange", None, None, None, None,
                  Some(TokenExchangeErrorText(p, out)))

token_exchange_result(p, out) ==
  IF out.kind = "Ok"
    THEN OkUnit
    ELSE AnyhowError(<<TokenExchangeErrorText(p, out)>>)

\* token_exchange that installs the token it obtained.
TokenExchangeReply_installs ==
  /\ pc = "await_exchange"
  /\ \E out \in TokenOutcomes :
       /\ returned' = token_exchange_returned(provider, out)
       /\ result' = token_exchange_result(provider, out)
       /\ credentials' =
            (IF out.kind = "Ok"
               THEN refresh_token(credentials, Unwrap(out.resp), now)
               ELSE credentials)
  /\ exchange' = None
  /\ pc' = "done"
  /\ UNCHANGED <<provider, now, http, watch, op, checkedExpired, submitted,
                 refreshCalls, refreshed, refreshErr, sends,
                 apiRequests, sentBearer, received, expiry, authorizeVars,
                 taskVars, observerVars, answer, persistVars, adapterVars>>

\* The token endpoint answers the authorization-code request with `out`:
\* token_exchange returns the token response, or the error as text.
TokenExchangeReplyOn(out) ==
  /\ pc = "await_exchange"
  /\ returned' = token_exchange_returned(provider, out)
  /\ result' = token_exchange_result(provider, out)
  /\ exchange' = None
  /\ pc' = "done"
  /\ UNCHANGED <<wrapperVars, op, checkedExpired, submitted, refreshCalls, refreshed, refreshErr, sends, apiRequests,
                 sentBearer, received, expiry, authorizeVars, taskVars,
                 observerVars, persistVars, adapterVars>>

\* The token endpoint answers the authorization-code request.
TokenExchangeReply ==
  /\ \E out \in TokenOutcomes : TokenExchangeReplyOn(out)
  /\ UNCHANGED answer

\* The same, with the answer kept on record.
AnsweredExchangeReply ==
  \E out \in TokenOutcomes :
    TokenExchangeReplyOn(out) /\ answer' = Some(out)

\* The token endpoint answers the exchange of refresh_credentials, with the
\* answer kept on record.
AnsweredTokenReply ==
  /\ \E out \in TokenOutcomes : TokenReplyOn(out) /\ answer' = Some(out)
  /\ UNCHANGED <<expiry, authorizeVars, taskVars, observerVars, exchange,
                 returned, persistVars, adapterVars>>

\* A HubSpot or GitHub wrapper, as new builds it, and one caller.
SurfaceInit ==
  /\ provider \in {"hubspot", "github"}
  /\ now = 0
  /\ credentials \in Credentials(0)
  /\ auth_http_client(credentials.access_token) # None
  /\ http = Unwrap(auth_http_client(credentials.access_token))
  /\ watch = Some(credentials)
  /\ CallInit
  /\ AuxInit

SurfaceNext ==
  \/ Id
  \/ Authorize
  \/ TokenExchange
  \/ TokenExchangeReply
  \/ GetCredentials
  \/ GetHttpClient
  \/ WatchOnRefresh
  \/ RefreshCredentials
  \/ TokenReply
  \/ SetCredentials

SurfaceSpec == SurfaceInit /\ [][SurfaceNext]_vars

\* ---------------------------------------------------------------- code flow
\* The authorization-code flow on a wrapper just built: authorize with any
\* scope list and options, then token_exchange with the code and any
\* verifier.
FlowInit ==
  /\ provider \in Providers
  /\ now = 0
  /\ credentials = DefaultCredentials(0)
  /\ http = ""
  /\ watch = (IF provider \in WatchProviders THEN Some(credentials) ELSE None)
  /\ CallInit
  /\ expiry = None
  /\ scopes \in ScopeLists
  /\ options \in AuthorizeOptions
  /\ request = None
  /\ rng = 0
  /\ issued = {}
  /\ TasksIdle
  /\ ObserversIdle
  /\ SurfaceIdle
  /\ PersistIdle
  /\ SheetIdle
  /\ AccountIdle
  /\ PagerIdle
  /\ ListingIdle

FlowNext ==
  \/ Authorize
  \/ TokenExchangeAnyVerifier
  \/ AnsweredExchangeReply

FlowSpec == FlowInit /\ [][FlowNext]_vars

\* ---------------------------------------------------------------- token errors
\* A HubSpot wrapper, as new builds it, whose token_exchange and
\* refresh_credentials meet every answer of the token endpoint.
TokenErrorInit ==
  /\ provider = "hubspot"
  /\ now = 0
  /\ credentials \in Credentials(0)
  /\ auth_http_client(credentials.access_token) # None
  /\ http = Unwrap(auth_http_client(credentials.access_token))
  /\ watch = Some(credentials)
  /\ CallInit
  /\ AuxInit

TokenErrorNext ==
  \/ TokenExchange
  \/ AnsweredExchangeReply
  \/ RefreshCredentials
  \/ AnsweredTokenReply

TokenErrorSpec == TokenErrorInit /\ [][TokenErrorNext]_vars

\* ---------------------------------------------------------------- persisted form
\* The JSON values serde_json writes for the fields of Credentials.
JNull == [json |-> "null"]
JString(text) == [json |-> "string", text |-> text]
JObject(fields) == [json |-> "object", fields |-> fields]

\* The text of a JSON string: serde_json writes a control character as its
\* escape sequence, and reads the escape sequence back as the character.
json_escape(str) == IF str = "bad\n" THEN "bad\\n" ELSE str
json_unescape(text) == IF text = "bad\\n" THEN "bad\n" ELSE text

\* chrono's Serialize / Deserialize of DateTime<Utc>: the RFC 3339 string,
\* with every digit of the instant, and its parse.
ser_datetime(t) == JString(<<"rfc3339", t>>)
de_datetime(j) == j.text[2]

\* oauth2's AccessToken and RefreshToken are newtypes of String: the string.
ser_secret(str) == JString(json_escape(str))
de_secret(j) == json_unescape(j.text)

\* serde's Serialize / Deserialize of std::time::Duration: the object
\* {"secs": .., "nanos": ..}; a lifetime of d units has no fraction.
ser_duration(d) == JObject([secs |-> d, nanos |-> 0])
de_duration(j) == j.fields.secs

\* A derive that leaves the refresh token out (#[serde(skip)]).
to_json_skips_refresh_token(c) ==
  [requested_at |-> ser_datetime(c.requested_at),
   access_token |-> ser_secret(c.access_token),
   refresh_token |-> JNull,
   expires_in |-> IF c.expires_in = None THEN JNull
                  ELSE ser_duration(Unwrap(c.expires_in))]

\* serde_json::to_string(self), by the derived Serialize of Credentials: an
\* object of the four fields, None written as null.
to_json(c) ==
  [requested_at |-> ser_datetime(c.requested_at),
   access_token |-> ser_secret(c.access_token),
   refresh_token |-> IF c.refresh_token = None THEN JNull
                     ELSE ser_secret(Unwrap(c.refresh_token)),
   expires_in |-> IF c.expires_in = None THEN JNull
                  ELSE ser_duration(Unwrap(c.expires_in))]

\* serde_json::from_str::<Credentials>, by the derived Deserialize: null
\* read as None.
from_json(doc) ==
  [requested_at |-> de_datetime(doc.requested_at),
   access_token |-> de_secret(doc.access_token),
   refresh_token |-> IF doc.refresh_token = JNull THEN None
                     ELSE Some(de_secret(doc.refresh_token)),
   expires_in |-> IF doc.expires_in = JNull THEN None
                  ELSE Some(de_duration(doc.expires_in))]

\* save_to_file: the Credentials are written as JSON.
SaveToFile ==
  /\ file = None
  /\ file' = Some(to_json(credentials))
  /\ UNCHANGED <<wrapperVars, callVars, expiry, authorizeVars, taskVars,
                 observerVars, surfaceVars, loaded, adapterVars>>

\* load_credentials, when the file exists: its text is deserialized.
LoadCredentials ==
  /\ file # None
  /\ loaded = None
  /\ loaded' = Some(from_json(Unwrap(file)))
  /\ UNCHANGED <<wrapperVars, callVars, expiry, authorizeVars, taskVars,
                 observerVars, surfaceVars, file, adapterVars>>

\* Time passes.
PersistTick ==
  /\ now < MaxTime
  /\ now' = now + 1
  /\ UNCHANGED <<provider, credentials, http, watch, callVars, expiry,
                 authorizeVars, taskVars, observerVars, surfaceVars,
                 persistVars, adapterVars>>

\* A Credentials value on its own, with or without refresh token and
\* lifetime, at any time of the clock.
PersistInit ==
  /\ provider = "github"
  /\ now \in Times
  /\ credentials \in AnyCredentials
  /\ http = credentials.access_token
  /\ watch = None
  /\ CallInit
  /\ AuxInit

PersistNext == SaveToFile \/ LoadCredentials \/ PersistTick

PersistSpec == PersistInit /\ [][PersistNext]_vars

\* ---------------------------------------------------------------- Sheets
\* read_range and read_rows_as_map with the `?` on a1_notation::new moved
\* behind the request.
RejectsBeforeCall_late == FALSE

\* read_range and read_rows_as_map parse the cell range, and return on a
\* range a1_notation rejects, before they come to call_json.
RejectsBeforeCall == TRUE

\* get_check_client inside call_json, as a read `o` of the adapter comes to
\* it after k exchanges and n requests: the expiry check, then the exchange
\* of the refresh token or the dispatch of the request.
SheetCall(o, k, n) ==
  /\ checkedExpired' = is_expired(credentials, now)
  /\ LET what == IF GateCheck(credentials, now) = "refresh"
                      /\ SendsExchange(credentials)
                   THEN "exchange" ELSE "client"
     IN Continue(o, what, credentials, http, k, n, NoResult)

\* A read `o` of the adapter is called with a cell range that a1_notation
\* accepts (ok) or not; an accepted range goes on to the request `first`.
SheetRead(o, first, ok) ==
  /\ Ready
  /\ op' = o
  /\ refreshed' = None
  /\ refreshErr' = None
  /\ sends' = 0
  /\ received' = None
  /\ IF ~ok /\ RejectsBeforeCall
       THEN /\ sheet' = [range |-> "invalid", stage |-> "none"]
            /\ pc' = "done"
            /\ result' = BadRequest(<<"Invalid cell range">>)
            /\ checkedExpired' = FALSE
            /\ submitted' = None
            /\ refreshCalls' = 0
            /\ apiRequests' = 0
            /\ sentBearer' = None
       ELSE /\ sheet' = [range |-> IF ok THEN "valid" ELSE "invalid",
                         stage |-> first]
            /\ SheetCall(o, 0, 0)
  /\ UNCHANGED <<wrapperVars, expiry, authorizeVars, taskVars, observerVars,
                 surfaceVars, persistVars, username, pager, listing>>

\* read_range(spreadsheet_id, sheet_id, cell_range): one request.
ReadRange == \E ok \in BOOLEAN : SheetRead("read_range", "rows", ok)

\* read_rows_as_map(spreadsheet_id, sheet_id, start, end): the range
\* "{start}:{end}" is parsed, then the header row is read, then the rows.
ReadRowsAsMap ==
  \E ok \in BOOLEAN : SheetRead("read_rows_as_map", "header", ok)

\* The API endpoint answers the request of a read: call_json makes a JSON
\* value or an error of it, read_range a ValueRange of the value when it
\* fits; read_rows_as_map, with the header row in hand, goes on to read the
\* rows through call_json again.
SheetApiReply ==
  /\ pc = "await_api"
  /\ op \in SheetOps
  /\ \E out \in ApiOutcomes, fits \in BOOLEAN, headers \in BOOLEAN :
       LET r == call_json_result(out)
           e == IF r.kind # "Ok" THEN r
                ELSE IF ~fits THEN SerdeError(<<"ValueRange">>)
                ELSE IF sheet.stage = "header" /\ ~headers
                  THEN BadRequest(<<"No headers found">>)
                ELSE r
       IN /\ received' = Some(out)
          /\ IF e.kind = "Ok" /\ sheet.stage = "header"
               THEN /\ sheet' = [sheet EXCEPT !.stage = "rows"]
                    /\ SheetCall(op, refreshCalls, apiRequests)
               ELSE /\ pc' = "done"
                    /\ result' = e
                    /\ UNCHANGED <<checkedExpired, submitted, refreshCalls, apiRequests, sentBearer,
                                   adapterVars>>
  /\ UNCHANGED <<wrapperVars, op, refreshed, refreshErr, sends, expiry,
                 authorizeVars, taskVars, observerVars, surfaceVars,
                 persistVars, username, pager, listing>>

\* Sheets::new(client) on a GoogClient as new builds it.
SheetsInit ==
  /\ provider = "google"
  /\ now = 0
  /\ credentials \in Credentials(0)
  /\ auth_http_client(credentials.access_token) # None
  /\ http = Unwrap(auth_http_client(credentials.access_token))
  /\ watch = None
  /\ CallInit
  /\ AuxInit

SheetsNext ==
  \/ ReadRange
  \/ ReadRowsAsMap
  \/ TokenReply
  \/ SheetApiReply
  \/ SetCredentials
  \/ Tick

SheetsSpec == SheetsInit /\ [][SheetsNext]_vars

\* ---------------------------------------------------------------- account_id
\* The account an access token was issued for, as the API's "me" endpoint
\* reports it (Microsoft: user_principal_name or else id; Reddit: name).
AccountOf(token) == IF token = "at1" THEN "<user 1>" ELSE "<user 0>"

\* account_id(): the name kept in self.username when there is one; or else
\* get_user(), a call_json to the "me" endpoint.
AccountId ==
  /\ Ready
  /\ op' = "account_id"
  /\ refreshed' = None
  /\ refreshErr' = None
  /\ sends' = 0
  /\ received' = None
  /\ IF username # None
       THEN /\ pc' = "done"
            /\ result' = OkUnit
            /\ returned' = Returned("account_id", username, None, None, None,
                                    None)
            /\ checkedExpired' = FALSE
            /\ submitted' = None
            /\ refreshCalls' = 0
            /\ apiRequests' = 0
            /\ sentBearer' = None
       ELSE /\ returned' = NothingReturned
            /\ SheetCall("account_id", 0, 0)
  /\ UNCHANGED <<wrapperVars, expiry, authorizeVars, taskVars, observerVars,
                 exchange, answer, persistVars, adapterVars>>

\* The "me" endpoint answers get_user's request with the user of the bearer
\* token: on a user that deserializes (Microsoft: serde_json::from_value,
\* Reddit: the typed call_json), account_id keeps the name in self.username
\* and returns it; every error goes to the caller by `?`.
AccountApiReply ==
  /\ pc = "await_api"
  /\ op = "account_id"
  /\ \E out \in ApiOutcomes, fits \in BOOLEAN :
       LET r == call_json_result(out)
           e == IF r.kind = "Ok" /\ ~fits
                  THEN (IF provider = "microsoft"
                          THEN SerdeError(<<"User">>)
                          ELSE RequestError(<<"decode">>, None))
                  ELSE r
           name == AccountOf(Unwrap(sentBearer))
       IN /\ received' = Some(out)
          /\ result' = (IF e.kind = "Ok" THEN OkUnit ELSE e)
          /\ username' = (IF e.kind = "Ok" THEN Some(name) ELSE username)
          /\ returned' = (IF e.kind = "Ok"
                            THEN Returned("account_id", Some(name), None,
                                          None, None, None)
                            ELSE NothingReturned)
  /\ pc' = "done"
  /\ UNCHANGED <<wrapperVars, op, checkedExpired, submitted, refreshCalls, refreshed, refreshErr, sends, apiRequests,
                 sentBearer, expiry, authorizeVars, taskVars, observerVars,
                 exchange, answer, persistVars, sheet, pager, listing>>

\* MicrosoftClient::new / RedditClient::new with usable Credentials.
AccountInit ==
  /\ provider \in {"microsoft", "reddit"}
  /\ now = 0
  /\ credentials \in Credentials(0)
  /\ auth_http_client(credentials.access_token) # None
  /\ http = Unwrap(auth_http_client(credentials.access_token))
  /\ watch = (IF provider \in WatchProviders THEN Some(credentials) ELSE None)
  /\ CallInit
  /\ AuxInit

AccountNext ==
  \/ AccountId
  \/ TokenReply
  \/ AccountApiReply
  \/ SetCredentials
  \/ Tick

AccountSpec == AccountInit /\ [][AccountNext]_vars

\* ---------------------------------------------------------------- paginate
\* The page arguments of paginate, and the link headers of a response:
\* absent, or present with a value that is or is not visible ASCII
\* (HeaderValue::to_str) and does or does not contain rel="next".
Pages == 0..MaxPage
PageArgs == {None} \cup {Some(p) : p \in Pages}
LinkHeaders ==
  {[present |-> FALSE, ascii |-> TRUE, rel_next |-> FALSE]}
  \cup {[present |-> TRUE, ascii |-> a, rel_next |-> r] : a, r \in BOOLEAN}

\* page.unwrap_or(1).
unwrap_or(page, default) == IF page = None THEN default ELSE Unwrap(page)

\* has_next(headers): the value of the link header as a &str, "" when
\* to_str() fails, contains rel="next".
has_next(link) == link.present /\ link.ascii /\ link.rel_next

\* p + 1 on a u32: the sum, and at u32::MAX the panic of a build with
\* overflow checks or the wrapped 0 of a build without.
page_plus_one(p) ==
  IF p < MaxPage
    THEN {[overflow |-> FALSE, sum |-> p + 1]}
    ELSE {[overflow |-> TRUE, sum |-> 0], [overflow |-> FALSE, sum |-> 0]}

Panicked(m) == [kind |-> "Panic", msg |-> m, client |-> None, status |-> None]

\* paginate(endpoint, page, query), up to the await of call: the page is
\* pushed to the query, then call runs get_check_client and dispatches.
Paginate ==
  /\ Ready
  /\ op' = "paginate"
  /\ refreshed' = None
  /\ refreshErr' = None
  /\ sends' = 0
  /\ received' = None
  /\ \E page \in PageArgs :
       pager' = Some([page |-> page,
                      query_page |-> Some(unwrap_or(page, 1)),
                      link |-> None, next_page |-> None])
  /\ SheetCall("paginate", 0, 0)
  /\ UNCHANGED <<wrapperVars, expiry, authorizeVars, taskVars, observerVars,
                 surfaceVars, persistVars, sheet, username, listing>>

\* The API answers the request of paginate: an error of call goes to the
\* caller; on a response next_page is computed from its link header, then
\* resp.json() makes the result or an error of the body.
PaginateApiReply ==
  /\ pc = "await_api"
  /\ op = "paginate"
  /\ \E out \in ApiOutcomes, link \in LinkHeaders :
       /\ received' = Some(out)
       /\ IF out.kind # "Response"
            THEN /\ result' = AnyhowError(<<"transport">>)
                 /\ pager' = pager
            ELSE IF ~has_next(link)
              THEN /\ result' = (IF out.json THEN OkUnit
                                 ELSE AnyhowError(<<"decode">>))
                   /\ pager' = Some([Pager EXCEPT !.link = Some(link)])
              ELSE \E next \in page_plus_one(unwrap_or(Pager.page, 1)) :
                     IF next.overflow
                       THEN /\ result' = Panicked(<<"add with overflow">>)
                            /\ pager' =
                                 Some([Pager EXCEPT !.link = Some(link)])
                       ELSE /\ result' = (IF out.json THEN OkUnit
                                          ELSE AnyhowError(<<"decode">>))
                            /\ pager' =
                                 Some([Pager EXCEPT
                                         !.link = Some(link),
                                         !.next_page =
                                           IF out.json THEN Some(next.sum)
                                           ELSE None])
  /\ pc' = "done"
  /\ UNCHANGED <<wrapperVars, op, checkedExpired, submitted, refreshCalls, refreshed, refreshErr, sends, apiRequests,
                 sentBearer, expiry, authorizeVars, taskVars, observerVars,
                 surfaceVars, persistVars, sheet, username, listing>>

\* GithubClient::new with usable Credentials.
PaginateInit ==
  /\ provider = "github"
  /\ now = 0
  /\ credentials \in Credentials(0)
  /\ auth_http_client(credentials.access_token) # None
  /\ http = Unwrap(auth_http_client(credentials.access_token))
  /\ watch = Some(credentials)
  /\ CallInit
  /\ AuxInit

PaginateNext ==
  \/ Paginate
  \/ TokenReply
  \/ PaginateApiReply
  \/ Tick

PaginateSpec == PaginateInit /\ [][PaginateNext]_vars

\* ---------------------------------------------------------------- listings
\* The bounds list_saved and list_upvoted keep the limit within.
LimitFloor == 1
LimitCap == 100

Limits == 0..MaxLimit
Afters == {None, Some("t3_after")}

\* usize::max and usize::min.
max(a, b) == IF b > a THEN b ELSE a
min(a, b) == IF b < a THEN b ELSE a

\* A listing that sends the limit it is given.
list_limit_as_given(limit) == ToString(limit)

\* limit.max(1).min(100).to_string().
list_limit(limit) == ToString(min(max(limit, LimitFloor), LimitCap))

\* The query of the listing request: t=all, the limit, and after when
\* there is one.
list_query(after, limit) ==
  <<Pair("t", "all"), Pair("limit", list_limit(limit))>>
  \o (IF after # None THEN <<Pair("after", Unwrap(after))>> ELSE <<>>)

\* The endpoint of listing `o` for the account `name`.
list_endpoint(o, name) ==
  <<"/user/", name, IF o = "list_saved" THEN "/saved" ELSE "/upvoted">>

\* list_saved / list_upvoted (after, limit), up to its first await:
\* account_id() returns the name kept in self.username, and the listing
\* request is built and goes to call_json (by paginate); or it goes to
\* get_user() first.
ListPosts(o) ==
  /\ Ready
  /\ op' = o
  /\ refreshed' = None
  /\ refreshErr' = None
  /\ sends' = 0
  /\ received' = None
  /\ \E after \in Afters, limit \in Limits :
       listing' =
         IF username # None
           THEN Some([after |-> after, limit |-> limit, stage |-> "posts",
                      endpoint |-> list_endpoint(o, Unwrap(username)),
                      query |-> list_query(after, limit)])
           ELSE Some([after |-> after, limit |-> limit, stage |-> "user",
                      endpoint |-> <<>>, query |-> <<>>])
  /\ SheetCall(o, 0, 0)
  /\ UNCHANGED <<wrapperVars, expiry, authorizeVars, taskVars, observerVars,
                 surfaceVars, persistVars, sheet, username, pager>>

ListSaved == ListPosts("list_saved")

ListUpvoted == ListPosts("list_upvoted")

\* The API answers the request a listing has in flight. That of get_user:
\* on a user, account_id keeps the name and the listing request is built
\* and goes to call_json; an error goes to the caller. That of the listing:
\* the posts or the error are returned.
ListApiReply ==
  /\ pc = "await_api"
  /\ op \in ListOps
  /\ \E out \in ApiOutcomes, fits \in BOOLEAN :
       LET r == call_json_result(out)
           e == IF r.kind = "Ok" /\ ~fits
                  THEN RequestError(<<"decode">>, None) ELSE r
           name == AccountOf(Unwrap(sentBearer))
       IN /\ received' = Some(out)
          /\ IF e.kind = "Ok" /\ Listing.stage = "user"
               THEN /\ username' = Some(name)
                    /\ listing' =
                         Some([Listing EXCEPT
                                 !.stage = "posts",
                                 !.endpoint = list_endpoint(op, name),
                                 !.query = list_query(Listing.after,
                                                      Listing.limit)])
                    /\ SheetCall(op, refreshCalls, apiRequests)
               ELSE /\ pc' = "done"
                    /\ result' = (IF e.kind = "Ok" THEN OkUnit ELSE e)
                    /\ UNCHANGED <<checkedExpired, submitted, refreshCalls, apiRequests, sentBearer,
                                   username, listing>>
  /\ UNCHANGED <<wrapperVars, op, refreshed, refreshErr, sends, expiry,
                 authorizeVars, taskVars, observerVars, surfaceVars,
                 persistVars, sheet, pager>>

\* RedditClient::new with usable Credentials that do not expire.
ListInit ==
  /\ provider = "reddit"
  /\ now = 0
  /\ credentials \in Credentials(0)
  /\ credentials.refresh_token = None
  /\ credentials.expires_in = None
  /\ auth_http_client(credentials.access_token) # None
  /\ http = Unwrap(auth_http_client(credentials.access_token))
  /\ watch = None
  /\ CallInit
  /\ AuxInit

ListNext ==
  \/ ListSaved
  \/ ListUpvoted
  \/ ListApiReply

ListSpec == ListInit /\ [][ListNext]_vars

\* ---------------------------------------------------------------- claims
\* The spec's notion of expiry: a lifetime is set and strictly more than it
\* has passed since issuance.
Expired(c, t) == \E d \in c.expires_in : t - c.requested_at > d

GateStep(o) == Ready /\ op' = o /\ now' = now

\* C1: applying a token response that carries no refresh token leaves the
\* refresh token the Credentials held (the one submitted) in place.
C1_RefreshTokenPreserved ==
  (refreshCalls > 0 /\ refreshed # None
     /\ Unwrap(refreshed).refresh_token = None)
    => credentials.refresh_token = submitted

\* C2: get_check_client on Credentials that are not expired makes no token
\* exchange, notifies nobody, changes neither the Credentials, the client nor
\* the channel, and returns the configured client.
C2_NotExpiredNoRefresh ==
  [][(GateStep("get_check_client") /\ ~Expired(credentials, now))
       => /\ pc' = "done"
          /\ refreshCalls' = 0
          /\ sends' = 0
          /\ result' = OkClient(http)
          /\ credentials' = credentials
          /\ http' = http
          /\ watch' = watch]_vars

C2_Witness ==
  /\ pc = "done" /\ op = "get_check_client" /\ ~checkedExpired
  /\ result = OkClient(http)
  /\ credentials.refresh_token # None
  /\ \E d \in credentials.expires_in : now - credentials.requested_at = d

\* C3: get_check_client on expired Credentials without a refresh token
\* returns Ok with the existing client, sends nothing to the token endpoint
\* and returns no error.
C3_ExpiredWithoutRefreshToken ==
  [][(GateStep("get_check_client") /\ Expired(credentials, now)
        /\ credentials.refresh_token = None)
       => /\ pc' = "done"
          /\ result' = OkClient(http)
          /\ refreshCalls' = 0
          /\ http' = http]_vars

C3_Witness ==
  /\ pc = "done" /\ op = "get_check_client" /\ checkedExpired
  /\ Expired(credentials, now)
  /\ credentials.refresh_token = None
  /\ refreshCalls = 0
  /\ result = OkClient(http)

\* What C4 asks of the step on which the token endpoint's answer arrives.
C4_Outcome ==
  /\ pc' = "done"
  /\ refreshCalls' = 1
  /\ sends' = 1
  /\ watch' = Some(credentials')
  /\ ~Expired(credentials', now')

C4_Accepted ==
  /\ pc = "await_token" /\ op = "get_check_client"
  /\ refreshed' # None
  /\ \E d \in Unwrap(refreshed').expires_in : d > 0

C5_RefreshBeforeDispatch ==
  /\ (op \in {"call", "call_json"} /\ pc = "await_token")
       => (apiRequests = 0 /\ sentBearer = None)
  /\ (op \in {"call", "call_json"} /\ refreshCalls > 0 /\ refreshed # None
        /\ refreshErr = None)
       => /\ pc \in {"await_api", "done"}
          /\ apiRequests = 1
          /\ sentBearer = Some(Unwrap(refreshed).access_token)
          /\ credentials.access_token = Unwrap(refreshed).access_token
          /\ http = Unwrap(refreshed).access_token

C5_Witness ==
  /\ op = "call_json" /\ pc = "await_api"
  /\ refreshCalls = 1 /\ refreshErr = None
  /\ sentBearer = Some("at1")
  /\ http = "at1"

\* C6: one invocation makes at most one token exchange, whatever its outcome.
C6_AtMostOneRefresh == refreshCalls <= 1

C6_Witness ==
  /\ pc = "done" /\ op \in Gated
  /\ refreshCalls = 1 /\ refreshErr # None

\* C7: with expired Credentials and the exchange rejected, the gated
\* invocation returns AuthError with the refresh error's message and
\* dispatches no API request.
C7_RefreshRejected ==
  (pc = "done" /\ op \in Gated /\ refreshCalls > 0 /\ refreshed = None)
    => /\ refreshErr # None
       /\ result = AuthError(<<"Unable to refresh credentials: ",
                               Unwrap(refreshErr)>>)
       /\ apiRequests = 0
       /\ sentBearer = None
       /\ received = None

C7_Witness ==
  /\ pc = "done" /\ op = "call_json" /\ checkedExpired
  /\ refreshCalls = 1 /\ refreshed = None
  /\ result.kind = "AuthError"
  /\ apiRequests = 0

\* C8: refresh_credentials without a refresh token succeeds, sends nothing
\* to the token endpoint, notifies nobody and leaves the Credentials, the
\* client and the channel as they were.
C8_RefreshWithoutTokenNoOp ==
  [][(GateStep("refresh_credentials") /\ credentials.refresh_token = None)
       => /\ pc' = "done"
          /\ result' = OkUnit
          /\ refreshCalls' = 0
          /\ sends' = 0
          /\ credentials' = credentials
          /\ http' = http
          /\ watch' = watch]_vars

C8_Witness ==
  /\ pc = "done" /\ op = "refresh_credentials"
  /\ credentials.refresh_token = None
  /\ result = OkUnit
  /\ refreshCalls = 0

\* C9: call_json returns AuthError exactly when the refresh failed or the
\* response status is 401; every other 4xx/5xx status gives RequestError.
C9_Only401IsAuthError ==
  (pc = "done" /\ op = "call_json")
    => /\ (result.kind = "AuthError")
            <=> (refreshErr # None
                   \/ \E o \in received :
                        o.kind = "Response" /\ o.status = 401)
       /\ \A o \in received :
            (o.kind = "Response" /\ IsErrorStatus(o.status) /\ o.status # 401)
              => result.kind = "RequestError"

C9_Witness ==
  /\ pc = "done" /\ op = "call_json"
  /\ result.kind = "RequestError"
  /\ \E o \in received : o.kind = "Response" /\ o.status = 404

\* C10 as stated: after new, set_credentials and successful
\* refresh_credentials the channel holds the Credentials the wrapper holds.
C10_Original ==
  (/\ provider \in WatchProviders
   /\ \/ op = "new"
      \/ /\ pc = "done"
         /\ op \in {"set_credentials", "refresh_credentials"}
         /\ result.kind = "Ok")
    => watch = Some(credentials)

\* C10, amended: the channel is seeded with the Credentials of new, every
\* publication carries the Credentials the wrapper then holds, every
\* successful refresh publishes, and set_credentials publishes nothing: the
\* channel equals the held Credentials after new and successful refreshes,
\* up to the next set_credentials.
C10_PublishedOnRefreshOnly ==
  /\ (provider \in WatchProviders => watch = Some(credentials))
  /\ [][/\ (watch' # watch)
             => (watch' = Some(credentials') /\ sends' = sends + 1)
        /\ (pc = "await_token" /\ pc' # "await_token" /\ refreshErr' = None)
             => watch' = Some(credentials')
        /\ (watch = Some(credentials) /\ ~GateStep("set_credentials")
              /\ refreshErr' = None)
             => watch' = Some(credentials')
        /\ GateStep("set_credentials") => watch' = watch]_vars

C10_Witness ==
  /\ provider \in WatchProviders
  /\ pc = "done" /\ op = "refresh_credentials"
  /\ sends = 1 /\ result = OkUnit
  /\ watch = Some(credentials)
  /\ credentials.access_token = "at1"

\* C13: for Credentials with lifetime Some(d), is_expired() answers true
\* exactly when now - requested_at > d, and false at now - requested_at = d.
C13_ExpiredIffStrictlyPast ==
  \A a \in expiry : \A d \in credentials.expires_in :
    a = (IF now - credentials.requested_at > d THEN "true" ELSE "false")

\* The same for the lifetimes chrono holds, where it is what is_expired()
\* answers.
ExpiredIffStrictlyPastInRange ==
  \A a \in expiry : \A d \in credentials.expires_in :
    (d <= ChronoMax)
      => a = (IF now - credentials.requested_at > d THEN "true" ELSE "false")

\* C14: for Credentials without a lifetime the expiry check answers false at
\* every time and for every requested_at, and the gated invocation makes no
\* token exchange; so on the default Credentials no refresh is ever triggered.
C14_NoLifetimeNeverExpires ==
  [][\A o \in Gated :
       (GateStep(o) /\ credentials.expires_in = None)
         => /\ checkedExpired' = FALSE
            /\ refreshCalls' = 0
            /\ pc' # "await_token"
            /\ credentials' = credentials]_vars

C14_Witness ==
  /\ op = "get_check_client" /\ pc = "done"
  /\ credentials = DefaultCredentials(0)
  /\ now = MaxTime
  /\ ~checkedExpired /\ refreshCalls = 0
  /\ result = OkClient("")

\* C17: one invocation of call / call_json dispatches at most one API
\* request; once the request is dispatched, whatever the response (a 401, any
\* other failure), no token exchange follows, no second request, and the
\* Credentials, the client and the channel stay as they are.
C17_NeverRetries ==
  [][/\ apiRequests' <= 1
     /\ (pc = "await_api")
          => /\ pc' \in {"await_api", "done"}
             /\ apiRequests' = apiRequests
             /\ refreshCalls' = refreshCalls
             /\ sends' = sends
             /\ credentials' = credentials
             /\ http' = http
             /\ watch' = watch]_vars

C17_Witness ==
  /\ op = "call_json" /\ pc = "done"
  /\ \E o \in received : o.kind = "Response" /\ o.status = 401
  /\ result = AuthError(<<"Unauthorized">>)
  /\ apiRequests = 1 /\ refreshCalls = 0
  /\ credentials.refresh_token # None

\* C18: a token exchange starts only on a step of get_check_client (alone or
\* inside call / call_json), and then only on expired Credentials, or on a
\* step of refresh_credentials; the passing of time starts none and changes
\* nothing of the wrapper, however long the Credentials have been expired.
C18_RefreshOnlyInsideCalls ==
  [][/\ (pc' = "await_token" /\ pc # "await_token")
          => /\ Ready /\ now' = now
             /\ op' \in Gated \cup {"refresh_credentials"}
             /\ (op' \in Gated) => Expired(credentials, now)
     /\ (now' # now)
          => /\ pc' = pc
             /\ refreshCalls' = refreshCalls
             /\ submitted' = submitted
             /\ credentials' = credentials
             /\ http' = http
             /\ watch' = watch]_vars

C18_Witness ==
  /\ op = "new" /\ pc = "idle"
  /\ credentials.refresh_token # None
  /\ \E d \in credentials.expires_in : now - credentials.requested_at > d
  /\ now = MaxTime
  /\ refreshCalls = 0 /\ watch \in {None, Some(credentials)}

HasKey(url, k) == \E i \in DOMAIN url : url[i].key = k

\* C19: authorize attaches a PKCE challenge (code_challenge and
\* code_challenge_method=S256 in the URL, pkce_verifier present) exactly when
\* the options' pkce is true, and attaches none when it is false.
C19_PkceExactlyWhenAsked ==
  \A req \in request :
    IF options.pkce
      THEN /\ HasKey(req.url, "code_challenge")
           /\ \E i \in DOMAIN req.url :
                req.url[i] = Pair("code_challenge_method", "S256")
           /\ req.pkce_verifier # None
      ELSE /\ ~HasKey(req.url, "code_challenge")
           /\ ~HasKey(req.url, "code_challenge_method")
           /\ req.pkce_verifier = None

\* The query parameters of the OAuth2 authorization request itself.
StandardKeys ==
  {"response_type", "client_id", "state", "code_challenge",
   "code_challenge_method", "redirect_uri", "scope"}

IsExtra(q) == q.key \notin StandardKeys

\* C20: authorize appends every pair of the options' extra_params to the
\* URL, in the order given, and adds no pair that was not asked for.
C20_ExtraParamsAppended ==
  \A req \in request :
    LET n == Len(req.url)
        k == Len(options.extra_params)
    IN /\ SelectSeq(req.url, IsExtra) = options.extra_params
       /\ k <= n
       /\ SubSeq(req.url, n - k + 1, n) = options.extra_params

\* The callers whose token exchange is in flight.
Exchanging == {t \in Tasks : tpc[t] = "await_token"}

\* C15: of the calls issued against one wrapper, no two have a token
\* exchange in flight at the same time, and no refresh token is submitted by
\* two exchanges that overlap.
C15_RefreshesSerialized ==
  /\ Cardinality(Exchanging) <= 1
  /\ \A t, u \in Exchanging : (t # u) => (tsub[t] # tsub[u])

C15_Witness ==
  /\ Exchanging # {}
  /\ \E u \in Tasks : tpc[u] = "waiting"
  /\ Expired(credentials, now)
  /\ \A t \in Exchanging : tsub[t] = credentials.refresh_token

\* C11: the channel is seeded with the Credentials of new and holds one
\* value, that of the most recent successful refresh; whatever the number of
\* refreshes before it, a read by an observer obtains that one value.
C11_LastValueWins ==
  /\ watch = Some(credentials) /\ latest = watch
  /\ [][/\ watch' = latest'
        /\ (observed' # observed)
             => (observed' = latest' /\ Cardinality(observed') = 1)]_vars

C11_Witness ==
  /\ published = MaxPublished
  /\ observed = latest
  /\ previous # None /\ previous # latest
  /\ watch = latest

\* C12: when the exchange succeeded (and the new access token is a legal
\* header value), refresh_credentials returns Ok with the new Credentials
\* installed and published, whether or not an observer holds a Receiver.
C12_PublishNeverFails ==
  [][(/\ pc = "await_token" /\ op = "refresh_credentials"
      /\ refreshed' # None
      /\ ValidHeaderValue(Unwrap(refreshed').access_token))
       => /\ pc' = "done"
          /\ result' = OkUnit
          /\ refreshErr' = None
          /\ credentials' = refresh_token(credentials, Unwrap(refreshed'), now)
          /\ http' = Unwrap(refreshed').access_token
          /\ watch' = Some(credentials')]_vars

C12_Witness ==
  /\ pc = "done" /\ op = "refresh_credentials"
  /\ receivers = 0 /\ observed = None
  /\ refreshCalls = 1 /\ refreshed # None
  /\ result = OkUnit
  /\ published = 1
  /\ credentials = refresh_token(credentials, Unwrap(refreshed), now)

ReadOnlyOps ==
  {"id", "authorize", "token_exchange", "credentials", "http_client",
   "watch_on_refresh"}

\* C16: the Credentials and the client change only on steps of
\* refresh_credentials and set_credentials; id, authorize, token_exchange
\* (whatever the endpoint answers), credentials(), http_client() and
\* watch_on_refresh leave both as they are; credentials() and http_client()
\* return what the wrapper holds at the call, and the returned value stays
\* as it is through later refreshes and set_credentials.
C16_OnlyRefreshAndSetMutate ==
  [][/\ (credentials' # credentials \/ http' # http)
          => op' \in {"refresh_credentials", "set_credentials"}
     /\ (op' \in ReadOnlyOps)
          => (credentials' = credentials /\ http' = http)
     /\ (op' \in {"refresh_credentials", "set_credentials"})
          => returned' = returned
     /\ (returned' # returned /\ returned'.what = "credentials")
          => returned'.creds = Some(credentials)
     /\ (returned' # returned /\ returned'.what = "http_client")
          => returned'.client = Some(http)]_vars

C16_Witness ==
  /\ pc = "done" /\ op = "refresh_credentials"
  /\ refreshCalls = 1 /\ refreshErr = None /\ sends = 1
  /\ returned.what = "credentials"
  /\ returned.creds # Some(credentials)
  /\ request # None
  /\ receivers > 0

\* C21: HubSpot's authorize returns pkce_challenge = None and pkce_verifier =
\* None for every scope list and every options value, pkce = true included,
\* and the request its token_exchange sends carries no code_verifier,
\* whatever pkce_verifier it is given.
C21_HubspotNeverPkce ==
  (provider = "hubspot")
    => /\ \A req \in request :
            req.pkce_challenge = None /\ req.pkce_verifier = None
       /\ \A x \in exchange : ~HasKey(x.body, "code_verifier")

C21_Witness ==
  /\ provider = "hubspot"
  /\ options.pkce
  /\ \E req \in request : req.pkce_verifier = None
  /\ \E x \in exchange :
       x.pkce_verifier # None /\ ~HasKey(x.body, "code_verifier")

\* The error message the last token_exchange or refresh_credentials returned.
ReturnedError == IF op = "token_exchange" THEN returned.err ELSE refreshErr

\* C22: when the HubSpot token endpoint answers a token exchange or a refresh
\* with a body that does not parse, the error returned carries the raw body
\* when that is UTF-8 and the parser's message when it is not; every other
\* request error is returned with its own message.
C22_HubspotParseErrorUnwrapped ==
  (/\ provider = "hubspot" /\ pc = "done"
   /\ \/ op = "token_exchange"
      \/ op = "refresh_credentials" /\ refreshCalls = 1)
    => \A out \in answer :
         /\ (out.kind = "Parse" /\ out.utf8)
              => ReturnedError = Some("<raw response body>")
         /\ (out.kind = "Parse" /\ ~out.utf8)
              => ReturnedError = Some("<parser error>")
         /\ (out.kind = "ServerResponse")
              => ReturnedError = Some("Server returned error response")
         /\ (out.kind = "Request")
              => ReturnedError = Some("Request failed")

C22_Witness ==
  /\ provider = "hubspot" /\ pc = "done" /\ op = "refresh_credentials"
  /\ refreshCalls = 1
  /\ \E out \in answer : out.kind = "Parse" /\ ~out.utf8
  /\ refreshErr = Some("<parser error>")
  /\ result = AnyhowError(<<"<parser error>">>)
  /\ returned.err = Some("<raw response body>")

\* C23: token_exchange returns the AuthError kind of ApiError whenever the
\* provider rejects the authorization code; on success it returns the token
\* response; either way the one answer ends the call, without a second
\* request.
C23_TokenExchangeAuthError ==
  /\ []((pc = "done" /\ op = "token_exchange")
         => \A out \in answer :
              /\ (out.kind = "ServerResponse") => result.kind = "AuthError"
              /\ (out.kind = "Ok")
                   => (returned.token = out.resp /\ returned.err = None))
  /\ [][(pc = "await_exchange") => (pc' = "done" /\ exchange' = None)]_vars

\* What token_exchange does on a rejection: the anyhow error with the
\* message of the request error, for every failure of the request.
TokenExchangeErrorIsAnyhow ==
  (pc = "done" /\ op = "token_exchange")
    => \A out \in answer :
         (out.kind # "Ok")
           => /\ result.kind = "Error"
              /\ returned.err # None /\ returned.token = None
              /\ result.msg = <<Unwrap(returned.err)>>

C25_InvalidRangeRejectedFirst ==
  /\ []((op \in SheetOps /\ sheet.range = "invalid")
         => /\ pc = "done"
            /\ result = BadRequest(<<"Invalid cell range">>)
            /\ ~checkedExpired
            /\ refreshCalls = 0 /\ submitted = None /\ sends = 0
            /\ apiRequests = 0 /\ sentBearer = None /\ received = None)
  /\ [][(op' \in SheetOps /\ sheet'.range = "invalid")
          => (credentials' = credentials /\ http' = http /\ watch' = watch)]_vars

C25_Witness ==
  /\ op = "read_rows_as_map" /\ sheet.range = "invalid" /\ pc = "done"
  /\ result.kind = "BadRequest"
  /\ Expired(credentials, now) /\ credentials.refresh_token # None
  /\ ~checkedExpired /\ refreshCalls = 0 /\ apiRequests = 0

\* C26: call returns the raw response for every status the server answers
\* with, 401 and 5xx included; it returns an error only when the refresh
\* failed (AuthError, nothing dispatched) or the request failed in transport
\* (RequestError). call_json is the one that makes an error of a status.
C26_CallReturnsRawResponse ==
  /\ (pc = "done" /\ op = "call")
       => /\ \A o \in received :
               IF o.kind = "Response"
                 THEN result = OkResponse(o.status)
                 ELSE result.kind = "RequestError" /\ result.status = None
          /\ (received = None)
               => (result.kind = "AuthError" /\ refreshErr # None)
          /\ result.kind \in {"Ok", "AuthError", "RequestError"}
  /\ (pc = "done" /\ op = "call_json")
       => \A o \in received :
            (o.kind = "Response" /\ IsErrorStatus(o.status))
              => result.kind \in {"AuthError", "RequestError"}

C26_Witness ==
  /\ pc = "done" /\ op = "call"
  /\ \E o \in received : o.kind = "Response" /\ o.status = 500
  /\ result = OkResponse(500)
  /\ refreshCalls = 1 /\ refreshErr = None

\* C27: in every reachable state the bearer token of the wrapper's client
\* is the access token of the Credentials it holds.
C27_BearerMatchesCredentials == http = credentials.access_token

\* What holds of the two: they agree after new and until an access token is
\* met that is no legal header value.
BearerMatchesUsableCredentials ==
  ValidHeaderValue(credentials.access_token)
    => http = credentials.access_token

\* A step on which set_credentials or refresh_credentials returns an error.
FailedUpdate ==
  \/ GateStep("set_credentials") /\ result'.kind # "Ok"
  \/ /\ pc = "await_token" /\ op = "refresh_credentials"
     /\ pc' = "done" /\ result'.kind # "Ok"

\* C28: whenever set_credentials or refresh_credentials returns an error,
\* the Credentials, the client and the channel are what they were before.
C28_AllOrNothing ==
  [][FailedUpdate
       => (credentials' = credentials /\ http' = http /\ watch' = watch)]_vars

\* What holds of a failed update: the client and the channel are what they
\* were, and a refresh the provider rejected leaves the Credentials too.
FailedUpdateKeepsClient ==
  [][FailedUpdate
       => /\ http' = http /\ watch' = watch
          /\ (refreshed' = None /\ op' = "refresh_credentials")
               => credentials' = credentials]_vars

\* The step on which the token endpoint's answer arrives and
\* refresh_credentials runs to its end.
RefreshEnds == pc = "await_token" /\ pc' # "await_token"

\* C29: the step on which a refresh succeeds notifies once, with the
\* Credentials the wrapper then holds, the client already rebuilt from them;
\* a refresh that fails notifies nobody, and neither does any other step, a
\* refresh without refresh token included.
C29_NotifiedOncePerRefresh ==
  [][/\ (RefreshEnds /\ refreshErr' = None)
          => /\ sends' = sends + 1
             /\ watch' = Some(credentials')
             /\ credentials' = refresh_token(credentials, Unwrap(refreshed'), now)
             /\ http' = credentials'.access_token
     /\ (RefreshEnds /\ refreshErr' # None)
          => (sends' = sends /\ watch' = watch)
     /\ (~RefreshEnds)
          => (sends' \in {0, sends} /\ watch' = watch)]_vars

C29_Witness ==
  /\ provider = "reddit"
  /\ pc = "await_api" /\ op = "call"
  /\ refreshCalls = 1 /\ refreshErr = None
  /\ sends = 1
  /\ watch = Some(credentials)
  /\ http = credentials.access_token
  /\ sentBearer = Some(http)

SentOnceAs(body, k, v) ==
  /\ \E i \in DOMAIN body : body[i] = Pair(k, v)
  /\ \A i, j \in DOMAIN body :
       body[i].key = k /\ body[j].key = k => i = j

\* C32: the token_exchange of GitHub's, Microsoft's and Reddit's wrappers
\* sends a code_verifier exactly when its pkce_verifier argument is
\* Some(v), and the verifier it sends is that v.
C32_VerifierSentIffGiven ==
  provider \in {"github", "microsoft", "reddit"} =>
    \A x \in exchange :
      IF x.pkce_verifier # None
        THEN SentOnceAs(x.body, "code_verifier", Unwrap(x.pkce_verifier))
        ELSE ~HasKey(x.body, "code_verifier")

\* Reddit's token_exchange was given a verifier other than the one its
\* authorize handed out, and has sent the one it was given.
C32_Witness ==
  /\ provider = "reddit"
  /\ pc = "await_exchange"
  /\ \E x \in exchange, r \in request :
       /\ x.pkce_verifier # None
       /\ x.pkce_verifier # r.pkce_verifier
       /\ SentOnceAs(x.body, "code_verifier", Unwrap(x.pkce_verifier))

\* Microsoft's token_exchange was given no verifier and has sent none.
C32_WitnessNone ==
  /\ provider = "microsoft"
  /\ pc = "await_exchange"
  /\ \E x \in exchange :
       x.pkce_verifier = None /\ ~HasKey(x.body, "code_verifier")

\* ---------------------------------------------------------------- C33
\* C33: the request authorize returns has a challenge exactly when it has
\* a verifier, and its csrf token and its verifier (when it has one) are
\* none of those the earlier authorize calls returned.
C33_FreshPkcePair ==
  \A r \in request :
    /\ (r.pkce_challenge # None) <=> (r.pkce_verifier # None)
    /\ r.csrf_token \notin issued
    /\ \A v \in r.pkce_verifier : v \notin issued

\* GitHub's authorize has returned its second request, with a verifier.
C33_Witness ==
  /\ provider = "github"
  /\ op = "authorize"
  /\ Cardinality(issued) = 2
  /\ \E r \in request : r.pkce_verifier # None /\ r.pkce_challenge # None

\* HubSpot's authorize has returned its third request, without PKCE.
C33_WitnessNoPkce ==
  /\ provider = "hubspot"
  /\ op = "authorize"
  /\ Cardinality(issued) = 2
  /\ \E r \in request : r.pkce_verifier = None /\ r.pkce_challenge = None

\* ---------------------------------------------------------------- C34
\* The body carries the client's id and its secret.
HasClientCredentials(body) ==
  /\ \E i \in DOMAIN body : body[i] = Pair("client_id", "<client_id>")
  /\ \E i \in DOMAIN body : body[i] = Pair("client_secret", "<client_secret>")

\* C34: every request HubSpot's wrapper sends to the token endpoint, the
\* authorization-code request of token_exchange and the refresh request of
\* refresh_credentials, carries client_id and client_secret in its body.
C34_HubspotBodyCredentials ==
  provider = "hubspot" =>
    /\ \A x \in exchange : HasClientCredentials(x.body)
    /\ \A body \in refreshRequest : HasClientCredentials(body)

\* HubSpot's refresh request is in flight.
C34_Witness ==
  /\ provider = "hubspot"
  /\ op = "refresh_credentials"
  /\ pc = "await_token"
  /\ \E body \in refreshRequest : HasClientCredentials(body)

\* HubSpot's authorization-code request is in flight.
C34_WitnessExchange ==
  /\ provider = "hubspot"
  /\ pc = "await_exchange"
  /\ \E x \in exchange : HasClientCredentials(x.body)

\* ---------------------------------------------------------------- C35
\* C35: when account_id of Microsoft's or Reddit's wrapper returns a name,
\* it is the account of the Credentials the wrapper holds (those whose
\* token its client sends), also after set_credentials has replaced them.
C35_AccountOfHeldCredentials ==
  (/\ op = "account_id"
   /\ pc = "done"
   /\ result.kind = "Ok"
   /\ http = credentials.access_token)
    => returned.id = Some(AccountOf(credentials.access_token))

\* The name account_id returns from an answer of the API in the same
\* invocation is the account of the Credentials held.
AccountFetchedIsHeld ==
  (/\ op = "account_id"
   /\ pc = "done"
   /\ result.kind = "Ok"
   /\ received # None
   /\ http = credentials.access_token)
    => returned.id = Some(AccountOf(credentials.access_token))

\* The name account_id returns is the one kept in self.username.
AccountIsKeptName ==
  (op = "account_id" /\ pc = "done" /\ result.kind = "Ok")
    => returned.id = username /\ username # None

\* ---------------------------------------------------------------- C36
\* An invocation of call is under way.
CallUnderWay == op = "call" /\ pc \in {"await_token", "await_api"}

\* call has returned, having dispatched the API request once, or having
\* dispatched none and returned an AuthError.
CallReturned ==
  /\ op = "call"
  /\ pc = "done"
  /\ \/ apiRequests = 1 /\ result.kind # "AuthError"
     \/ apiRequests = 0 /\ result.kind = "AuthError"

C36_WitnessDispatched ==
  /\ CallReturned
  /\ refreshCalls = 1
  /\ apiRequests = 1
  /\ received # None

\* ---------------------------------------------------------------- C37
\* paginate has returned the result of a response whose body deserializes.
PaginateReturned ==
  /\ op = "paginate"
  /\ pc = "done"
  /\ \E out \in received : out.kind = "Response" /\ out.json

\* The next_page the claim gives for the page asked for and the link header
\* of the response.
NextPageOf(page, link) ==
  IF link.present /\ link.rel_next
    THEN Some(unwrap_or(page, 1) + 1)
    ELSE None

\* C37: paginate requests page p (1 when no page is given), and returns
\* next_page = Some(p + 1) exactly when the link header of the response
\* contains rel="next", None otherwise.
C37_NextPageFollowsLink ==
  PaginateReturned =>
    /\ Pager.query_page = Some(unwrap_or(Pager.page, 1))
    /\ apiRequests = 1
    /\ result.kind = "Ok"
    /\ Pager.next_page = NextPageOf(Pager.page, Unwrap(Pager.link))

\* The same for a page below u32::MAX and a link header that is visible
\* ASCII.
NextPageFollowsLinkInRange ==
  (/\ PaginateReturned
   /\ unwrap_or(Pager.page, 1) < MaxPage
   /\ Unwrap(Pager.link).ascii)
    => /\ Pager.query_page = Some(unwrap_or(Pager.page, 1))
       /\ apiRequests = 1
       /\ result.kind = "Ok"
       /\ Pager.next_page = NextPageOf(Pager.page, Unwrap(Pager.link))

\* paginate has returned next_page = Some(2) for no page given.
NextPageReached ==
  /\ PaginateReturned
  /\ Pager.page = None
  /\ Pager.next_page = Some(2)

\* ---------------------------------------------------------------- C38
\* The limit the claim gives for a requested limit.
ClampedLimit(limit) ==
  IF limit < 1 THEN 1 ELSE IF limit > 100 THEN 100 ELSE limit

\* The listing request of list_saved / list_upvoted has been built.
ListingBuilt == op \in ListOps /\ Listing.stage = "posts"

\* C38: the limit list_saved and list_upvoted send is between 1 and 100,
\* the requested limit raised to 1 and lowered to 100, for every requested
\* limit.
C38_LimitClamped ==
  ListingBuilt =>
    /\ ClampedLimit(Listing.limit) \in 1..100
    /\ SentOnceAs(Listing.query, "limit",
                  ToString(ClampedLimit(Listing.limit)))

\* list_saved has its listing request in flight with limit 100 for a
\* requested limit above 100.
C38_Witness ==
  /\ op = "list_saved"
  /\ pc = "await_api"
  /\ Listing.stage = "posts"
  /\ Listing.limit > 100
  /\ SentOnceAs(Listing.query, "limit", "100")

\* list_upvoted has its listing request in flight with limit 1 for a
\* requested limit of 0.
C38_WitnessZero ==
  /\ op = "list_upvoted"
  /\ pc = "await_api"
  /\ Listing.stage = "posts"
  /\ Listing.limit = 0
  /\ SentOnceAs(Listing.query, "limit", "1")

====
